---- MODULE Spec2Model ----
(***************************************************************************)
(* Model of the 3MF loader of STLviewer (src/src/parser_3mf.py) and of the *)
(* file handler of its GUI host (src/src/main.py, src/src/viewer.py).      *)
(* Spec is one call of load_3mf, SpecRepeat a sequence of calls, SpecGui   *)
(* one double click in the file tree, SpecViewer a sequence of calls of    *)
(* the methods of ModelViewer (loads, axes, lights, clear_scene).          *)
(*                                                                         *)
(* Text is a sequence of one-character strings.  An XML element is a       *)
(* record [tag, attrib, children]: tag is <<namespace-uri, local-name>>    *)
(* (ElementTree's "{uri}local"), attrib is a set of <<key, value>> pairs   *)
(* and children is the sequence of child elements in document order.       *)
(* An optional value (Python None or a value) is a sequence of length 0    *)
(* or 1.  A float that the code obtains by a division is kept as the pair  *)
(* <<numerator, denominator>>.                                             *)
(***************************************************************************)
EXTENDS Integers, Sequences, FiniteSets, TLC

\* ------------------------------------------------------------------ bounds
MaxEntries == 3
MaxObjects == 3
MaxVertices == 2
MaxTriangles == 2
MaxColorLen == 10
MaxCalls == 3
MaxOps == 3

\* ------------------------------------------------------- python primitives
None == <<>>
Some(v) == <<v>>

\* str.endswith(suffix)
EndsWith(s, suffix) ==
    /\ Len(s) >= Len(suffix)
    /\ SubSeq(s, Len(s) - Len(suffix) + 1, Len(s)) = suffix

\* str.startswith(prefix)
StartsWith(s, prefix) ==
    /\ Len(s) >= Len(prefix)
    /\ SubSeq(s, 1, Len(prefix)) = prefix

Min(a, b) == IF a < b THEN a ELSE b

\* s[lo:hi] for 0 <= lo <= hi: the slice is clipped to the string
Slice(s, lo, hi) == SubSeq(s, Min(lo, Len(s)) + 1, Min(hi, Len(s)))

Whitespace == {" "}

RECURSIVE LStrip(_)
LStrip(s) == IF s /= <<>> /\ Head(s) \in Whitespace THEN LStrip(Tail(s)) ELSE s

RECURSIVE RStrip(_)
RStrip(s) ==
    IF s /= <<>> /\ s[Len(s)] \in Whitespace
    THEN RStrip(SubSeq(s, 1, Len(s) - 1))
    ELSE s

Strip(s) == RStrip(LStrip(s))

DigitChars == <<"0", "1", "2", "3", "4", "5", "6", "7", "8", "9",
                "A", "B", "C", "D", "E", "F">>
LowerHex == <<"a", "b", "c", "d", "e", "f">>

\* value of one digit character, -1 when it is not a digit at all
DigitValue(c) ==
    IF \E i \in 1..16 : DigitChars[i] = c
    THEN (CHOOSE i \in 1..16 : DigitChars[i] = c) - 1
    ELSE IF \E i \in 1..6 : LowerHex[i] = c
    THEN (CHOOSE i \in 1..6 : LowerHex[i] = c) + 9
    ELSE -1

IsDigit(c, base) == DigitValue(c) >= 0 /\ DigitValue(c) < base

RECURSIVE DigitsValue(_, _)
DigitsValue(s, base) ==
    IF s = <<>> THEN 0
    ELSE DigitsValue(SubSeq(s, 1, Len(s) - 1), base) * base + DigitValue(s[Len(s)])

\* int(s, base): surrounding whitespace is dropped, one sign is allowed,
\* what is left has to be a non-empty run of digits of the base.
\* None stands for ValueError.
ParseInt(s, base) ==
    LET t == Strip(s)
        signed == t /= <<>> /\ Head(t) \in {"+", "-"}
        body == IF signed THEN Tail(t) ELSE t
    IN  IF body = <<>> \/ \E i \in 1..Len(body) : ~IsDigit(body[i], base)
        THEN None
        ELSE IF signed /\ Head(t) = "-"
        THEN Some(0 - DigitsValue(body, base))
        ELSE Some(DigitsValue(body, base))

\* float(s) on the decimal integer literals; None stands for ValueError
ParseFloat(s) == ParseInt(s, 10)

RECURSIVE Digits(_)
Digits(n) ==
    IF n < 10 THEN <<DigitChars[n + 1]>>
    ELSE Digits(n \div 10) \o <<DigitChars[(n % 10) + 1]>>

\* str.split(): the maximal runs of non-whitespace characters
RECURSIVE SplitFrom(_, _)
SplitFrom(s, cur) ==
    IF s = <<>> THEN (IF cur = <<>> THEN <<>> ELSE <<cur>>)
    ELSE IF Head(s) \in Whitespace
    THEN (IF cur = <<>> THEN <<>> ELSE <<cur>>) \o SplitFrom(Tail(s), <<>>)
    ELSE SplitFrom(Tail(s), Append(cur, Head(s)))

Split(s) == SplitFrom(s, <<>>)

\* --------------------------------------------------- xml.etree.ElementTree
\* the prefix map handed to find(); a tag is <<namespace uri, local name>>
ns == [m |-> "http://schemas.microsoft.com/3dmanufacturing/material/2015/02",
       p |-> "http://schemas.microsoft.com/3dmanufacturing/production/2015/06"]

\* an unprefixed path step names a tag without namespace
Plain(local) == <<"", local>>
\* a prefixed path step 'm:local' is resolved through the prefix map
Qualified(uri, local) == <<uri, local>>

Elem(tag, attrib, children) == [tag |-> tag, attrib |-> attrib, children |-> children]

\* Element.get(key): the attribute or None
Get(e, key) ==
    IF \E kv \in e.attrib : kv[1] = key
    THEN Some((CHOOSE kv \in e.attrib : kv[1] = key)[2])
    ELSE None

\* Element.iter(): the element and its descendants in document order
RECURSIVE Iter(_)
RECURSIVE IterAll(_)
Iter(e) == <<e>> \o IterAll(e.children)
IterAll(es) == IF es = <<>> THEN <<>> ELSE Iter(Head(es)) \o IterAll(Tail(es))

\* findall('.//tag'): descendants (never the element itself) with that tag
FindAllDesc(e, tag) ==
    LET all == Tail(Iter(e))
        Match(x) == x.tag = tag
    IN  SelectSeq(all, Match)

\* findall('tag'): direct children with that tag
FindAllChild(e, tag) ==
    LET Match(x) == x.tag = tag
    IN  SelectSeq(e.children, Match)

First(s) == IF s = <<>> THEN None ELSE Some(Head(s))

\* find('.//tag') and find('tag'): first match or None
FindDesc_DirectChild(e, tag) == First(FindAllChild(e, tag))

FindDesc(e, tag) == First(FindAllDesc(e, tag))
FindChild(e, tag) == First(FindAllChild(e, tag))

\* ------------------------------------------------------------ parser_3mf.py
ValueError == "ValueError"
AttributeError == "AttributeError"
BadZipFile == "BadZipFile"
ParseError == "ParseError"

Object3MF(name, mesh, transform, color) ==
    [name |-> name, mesh |-> mesh, transform |-> transform, color |-> color]

Color3MF(r, g, b, a) == [r |-> r, g |-> g, b |-> b, a |-> a]

\* float(vertex.get(key, 0)) and int(triangle.get(key, 0))
FloatAttr_Required(e, key) == IF Get(e, key) = None THEN None ELSE ParseFloat(Get(e, key)[1])

FloatAttr(e, key) == IF Get(e, key) = None THEN Some(0) ELSE ParseFloat(Get(e, key)[1])
IntAttr(e, key) == IF Get(e, key) = None THEN Some(0) ELSE ParseInt(Get(e, key)[1], 10)

\* the vertex loop: the point of every vertex child, None where float() raised
PointOf(v) ==
    IF None \in {FloatAttr(v, "x"), FloatAttr(v, "y"), FloatAttr(v, "z")}
    THEN None
    ELSE Some(<<FloatAttr(v, "x")[1], FloatAttr(v, "y")[1], FloatAttr(v, "z")[1]>>)

CellOf_Unsigned(t) ==
    IF None \in {IntAttr(t, "v1"), IntAttr(t, "v2"), IntAttr(t, "v3")}
    THEN None
    ELSE IF \E key \in {"v1", "v2", "v3"} : IntAttr(t, key)[1] < 0
    THEN None
    ELSE Some(<<IntAttr(t, "v1")[1], IntAttr(t, "v2")[1], IntAttr(t, "v3")[1]>>)

\* the triangle loop: the cell of every triangle child, None where int() raised
CellOf(t) ==
    IF None \in {IntAttr(t, "v1"), IntAttr(t, "v2"), IntAttr(t, "v3")}
    THEN None
    ELSE Some(<<IntAttr(t, "v1")[1], IntAttr(t, "v2")[1], IntAttr(t, "v3")[1]>>)

\* InsertNextPoint / InsertNextCell over the children in document order
Points(vs) == [i \in 1..Len(vs) |-> PointOf(vs[i])[1]]
Cells(ts) == [i \in 1..Len(ts) |-> CellOf(ts[i])[1]]

\* f'Object_{n}'
DefaultName(n) == <<"O", "b", "j", "e", "c", "t", "_">> \o Digits(n)

NameOf_FromOne(obj, n) ==
    IF Get(obj, "name") = None THEN DefaultName(n + 1) ELSE Get(obj, "name")[1]

NameOf(obj, n) == IF Get(obj, "name") = None THEN DefaultName(n) ELSE Get(obj, "name")[1]

DefaultColorValue == <<"#", "F", "F", "F", "F", "F", "F", "F", "F">>

\* int(color_value[lo:hi], 16) / 255.0
Channel(color_value, lo, hi) ==
    IF ParseInt(Slice(color_value, lo, hi), 16) = None THEN None
    ELSE Some(<<ParseInt(Slice(color_value, lo, hi), 16)[1], 255>>)

Alpha_LongerOnly(color_value) ==
    IF Len(color_value) > 9 THEN Channel(color_value, 7, 9) ELSE Some(<<1, 1>>)

Alpha(color_value) ==
    IF Len(color_value) > 7 THEN Channel(color_value, 7, 9) ELSE Some(<<1, 1>>)

DecodeColor_SkipsMissing(obj) ==
    LET color == FindDesc(obj, Qualified(ns.m, "color"))
        color_value == Get(color[1], "value")[1]
        r == Channel(color_value, 1, 3)
        g == Channel(color_value, 3, 5)
        b == Channel(color_value, 5, 7)
        a == Alpha(color_value)
    IN  IF color = None \/ Get(color[1], "value") = None THEN [raised |-> None, color |-> None]
        ELSE IF ~StartsWith(color_value, <<"#">>) THEN [raised |-> None, color |-> None]
        ELSE IF None \in {r, g, b, a} THEN [raised |-> Some(ValueError), color |-> None]
        ELSE [raised |-> None, color |-> Some(Color3MF(r[1], g[1], b[1], a[1]))]

DecodeColor_ParsesAnyway(obj) ==
    LET color == FindDesc(obj, Qualified(ns.m, "color"))
        color_value == IF Get(color[1], "value") = None
                       THEN DefaultColorValue
                       ELSE Get(color[1], "value")[1]
        r == Channel(color_value, 1, 3)
        g == Channel(color_value, 3, 5)
        b == Channel(color_value, 5, 7)
        a == Alpha(color_value)
    IN  IF color = None THEN [raised |-> None, color |-> None]
        ELSE IF None \in {r, g, b, a} THEN [raised |-> Some(ValueError), color |-> None]
        ELSE [raised |-> None, color |-> Some(Color3MF(r[1], g[1], b[1], a[1]))]

\* the colour block: [raised, color]
DecodeColor(obj) ==
    LET color == FindDesc(obj, Qualified(ns.m, "color"))
        color_value == IF Get(color[1], "value") = None
                       THEN DefaultColorValue
                       ELSE Get(color[1], "value")[1]
        r == Channel(color_value, 1, 3)
        g == Channel(color_value, 3, 5)
        b == Channel(color_value, 5, 7)
        a == Alpha(color_value)
    IN  IF color = None THEN [raised |-> None, color |-> None]
        ELSE IF ~StartsWith(color_value, <<"#">>) THEN [raised |-> None, color |-> None]
        ELSE IF None \in {r, g, b, a} THEN [raised |-> Some(ValueError), color |-> None]
        ELSE [raised |-> None, color |-> Some(Color3MF(r[1], g[1], b[1], a[1]))]

DefaultTransformValue ==
    <<"1", " ", "0", " ", "0", " ", "0", " ", "0", " ", "1", " ", "0", " ", "0", " ",
      "0", " ", "0", " ", "1", " ", "0", " ", "0", " ", "0", " ", "0", " ", "1">>

\* vtkMatrix4x4 filled by SetElement(i, j, values[i*4 + j])
Matrix4x4_Transposed(values) == [i \in 0..3 |-> [j \in 0..3 |-> values[j * 4 + i + 1]]]

Matrix4x4(values) == [i \in 0..3 |-> [j \in 0..3 |-> values[i * 4 + j + 1]]]

DecodeTransform_Strict(obj) ==
    LET transform == FindDesc(obj, Plain("transform"))
        matrix == IF Get(transform[1], "value") = None
                  THEN DefaultTransformValue
                  ELSE Get(transform[1], "value")[1]
        tokens == Split(matrix)
        values == [i \in 1..Len(tokens) |-> ParseFloat(tokens[i])[1]]
    IN  IF transform = None THEN [raised |-> None, transform |-> None]
        ELSE IF \E i \in 1..Len(tokens) : ParseFloat(tokens[i]) = None
        THEN [raised |-> Some(ValueError), transform |-> None]
        ELSE IF Len(values) = 16
        THEN [raised |-> None, transform |-> Some(Matrix4x4(values))]
        ELSE [raised |-> Some(ValueError), transform |-> None]

DecodeTransform_SkipsBadTokens(obj) ==
    LET transform == FindDesc(obj, Plain("transform"))
        matrix == IF Get(transform[1], "value") = None
                  THEN DefaultTransformValue
                  ELSE Get(transform[1], "value")[1]
        tokens == Split(matrix)
        values == [i \in 1..Len(tokens) |-> ParseFloat(tokens[i])[1]]
    IN  IF transform = None THEN [raised |-> None, transform |-> None]
        ELSE IF \E i \in 1..Len(tokens) : ParseFloat(tokens[i]) = None
        THEN [raised |-> None, transform |-> None]
        ELSE IF Len(values) = 16
        THEN [raised |-> None, transform |-> Some(Matrix4x4(values))]
        ELSE [raised |-> None, transform |-> None]

\* the transform block: [raised, transform]
DecodeTransform(obj) ==
    LET transform == FindDesc(obj, Plain("transform"))
        matrix == IF Get(transform[1], "value") = None
                  THEN DefaultTransformValue
                  ELSE Get(transform[1], "value")[1]
        tokens == Split(matrix)
        values == [i \in 1..Len(tokens) |-> ParseFloat(tokens[i])[1]]
    IN  IF transform = None THEN [raised |-> None, transform |-> None]
        ELSE IF \E i \in 1..Len(tokens) : ParseFloat(tokens[i]) = None
        THEN [raised |-> Some(ValueError), transform |-> None]
        ELSE IF Len(values) = 16
        THEN [raised |-> None, transform |-> Some(Matrix4x4(values))]
        ELSE [raised |-> None, transform |-> None]

BuildObject_MissingAsEmpty(obj, n) ==
    LET mesh == FindDesc(obj, Plain("mesh"))[1]
        vertices == FindChild(mesh, Plain("vertices"))
        triangles == FindChild(mesh, Plain("triangles"))
        vs == IF vertices = None THEN <<>> ELSE FindAllChild(vertices[1], Plain("vertex"))
        ts == IF triangles = None THEN <<>> ELSE FindAllChild(triangles[1], Plain("triangle"))
        vtk_mesh == [points |-> Points(vs), polys |-> Cells(ts)]
        c == DecodeColor(obj)
        t == DecodeTransform(obj)
        Raise(e) == [raised |-> Some(e), object |-> None]
    IN  IF \E i \in 1..Len(vs) : PointOf(vs[i]) = None THEN Raise(ValueError)
        ELSE IF \E i \in 1..Len(ts) : CellOf(ts[i]) = None THEN Raise(ValueError)
        ELSE IF c.raised /= None THEN Raise(c.raised[1])
        ELSE IF t.raised /= None THEN Raise(t.raised[1])
        ELSE [raised |-> None,
              object |-> Some(Object3MF(NameOf(obj, n), vtk_mesh, t.transform, c.color))]

\* one pass of the body of `for obj in resources.findall('.//object')` for an
\* object that has a mesh, with n = len(objects): [raised, object]
BuildObject(obj, n) ==
    LET mesh == FindDesc(obj, Plain("mesh"))[1]
        vertices == FindChild(mesh, Plain("vertices"))
        triangles == FindChild(mesh, Plain("triangles"))
        vs == FindAllChild(vertices[1], Plain("vertex"))
        ts == FindAllChild(triangles[1], Plain("triangle"))
        vtk_mesh == [points |-> Points(vs), polys |-> Cells(ts)]
        c == DecodeColor(obj)
        t == DecodeTransform(obj)
        Raise(e) == [raised |-> Some(e), object |-> None]
    IN  IF vertices = None THEN Raise(AttributeError)
        ELSE IF \E i \in 1..Len(vs) : PointOf(vs[i]) = None THEN Raise(ValueError)
        ELSE IF triangles = None THEN Raise(AttributeError)
        ELSE IF \E i \in 1..Len(ts) : CellOf(ts[i]) = None THEN Raise(ValueError)
        ELSE IF c.raised /= None THEN Raise(c.raised[1])
        ELSE IF t.raised /= None THEN Raise(t.raised[1])
        ELSE [raised |-> None,
              object |-> Some(Object3MF(NameOf(obj, n), vtk_mesh, t.transform, c.color))]

\* ------------------------------------------------------------------ inputs
\* A file is [zip, entries]; an entry is [name, data]; data is the parsed
\* document of a well-formed payload or None for bytes that are not XML.
\* An entry name is a sequence of pieces of text.
Suffix == <<"3dmodel.model">>
NameStd == <<"3D/", "3dmodel.model">>
NameAlt == <<"my", "3dmodel.model">>
NameBak == <<"3D/", "3dmodel.model", ".bak">>
EntryNames == {NameStd, NameAlt, NameBak}

SeqsUpTo(S, n) == UNION {[1..k -> S] : k \in 0..n}

Model(children) == Elem(Plain("model"), {}, children)
Resources(children) == Elem(Plain("resources"), {}, children)
Vertex(attrib) == Elem(Plain("vertex"), attrib, <<>>)
Triangle(attrib) == Elem(Plain("triangle"), attrib, <<>>)
Mesh(vs, ts) ==
    Elem(Plain("mesh"), {}, <<Elem(Plain("vertices"), {}, vs), Elem(Plain("triangles"), {}, ts)>>)
Object(attrib, children) == Elem(Plain("object"), attrib, children)
Color(attrib) == Elem(Qualified(ns.m, "color"), attrib, <<>>)
Transform(attrib) == Elem(Plain("transform"), attrib, <<>>)

XYZ(x, y, z) == {<<"x", x>>, <<"y", y>>, <<"z", z>>}
V123(a, b, c) == {<<"v1", a>>, <<"v2", b>>, <<"v3", c>>}

VertexPool ==
    { Vertex(XYZ(<<"1">>, <<"2">>, <<"3">>)),
      Vertex(XYZ(<<"4">>, <<"5">>, <<"6">>)),
      Vertex({<<"y", <<"-", "7">>>>}),
      Vertex({}),
      Vertex(XYZ(<<"1">>, <<"a">>, <<"3">>)) }

TrianglePool ==
    { Triangle(V123(<<"0">>, <<"1">>, <<"2">>)),
      Triangle(V123(<<"2">>, <<"1">>, <<"0">>)),
      Triangle({<<"v2", <<"9">>>>}),
      Triangle(V123(<<"-", "1">>, <<"0">>, <<"1">>)),
      Triangle(V123(<<"0">>, <<"x">>, <<"1">>)) }

Tri012 == Triangle(V123(<<"0">>, <<"1">>, <<"2">>))
UnitMesh ==
    Mesh(<<Vertex(XYZ(<<"0">>, <<"0">>, <<"0">>)),
           Vertex(XYZ(<<"1">>, <<"0">>, <<"0">>)),
           Vertex(XYZ(<<"0">>, <<"1">>, <<"0">>))>>, <<Tri012>>)

Widget == <<"W", "i", "d", "g", "e", "t">>
NameA == {<<"name", Widget>>}

\* documents with one object whose geometry varies: every list of vertices
\* with at most one triangle, and every list of triangles with at most one
\* vertex
GeometryDocs ==
    { Model(<<Resources(<<Object(NameA, <<Mesh(vs, ts)>>)>>)>>) :
        vs \in SeqsUpTo(VertexPool, MaxVertices), ts \in SeqsUpTo(TrianglePool, 1) }
    \cup { Model(<<Resources(<<Object(NameA, <<Mesh(vs, ts)>>)>>)>>) :
        vs \in SeqsUpTo(VertexPool, 1), ts \in SeqsUpTo(TrianglePool, MaxTriangles) }

\* colour values: a prefix of a base text, at most one character replaced
ColorBases ==
    { <<"#", "F", "0", "8", "0", "0", "F", "4", "0", "A", "B", "C", "D">>,
      <<"#", "F", "F", "F", "F", "F", "F", "F", "F", "F", "F", "F", "F">>,
      <<"#", "0", "0", "0", "0", "0", "0", "0", "0", "0", "0", "0", "0">> }
Deviants == {"Z", "-", " "}
ColorValues ==
    LET prefixes == { SubSeq(b, 1, k) : b \in ColorBases, k \in 0..MaxColorLen }
        replaced == UNION { { [v EXCEPT ![i] = d] : i \in 1..Len(v), d \in Deviants } :
                            v \in prefixes }
        bare == { Tail(v) : v \in prefixes \ {<<>>} }
    IN  prefixes \cup replaced \cup bare
            \cup { <<"#", "F", "F", "0", "0", "0", "0", "F", "F">>,
                   <<"#", "0", "0", "F", "F", "0", "0">>,
                   <<"#", "Z", "Z", "Z", "Z", "Z", "Z">>,
                   <<"r", "e", "d">> }

Red == <<"#", "F", "F", "0", "0", "0", "0">>
Value(v) == {<<"value", v>>}

\* documents with one object whose colour element varies
ColorDocs ==
    { Model(<<Resources(<<Object({}, <<UnitMesh, Color(Value(v))>>)>>)>>) : v \in ColorValues }
    \cup { Model(<<Resources(<<Object({}, <<UnitMesh, Color({})>>)>>)>>),
           Model(<<Resources(<<Object({}, <<UnitMesh, Color(Value(Red)), Color({})>>)>>)>>),
           Model(<<Resources(<<Object({}, <<UnitMesh,
                Elem(Plain("components"), {}, <<Color(Value(Red))>>)>>)>>)>>),
           Model(<<Resources(<<Object({}, <<UnitMesh,
                Elem(Plain("color"), Value(Red), <<>>)>>)>>)>>) }

Row(a, b, c, d) == <<a, " ", b, " ", c, " ", d>>
T16 == Row("1", "0", "0", "0") \o <<" ">> \o Row("0", "1", "0", "0") \o <<" ">>
         \o Row("0", "0", "1", "0") \o <<" ">> \o Row("5", "6", "7", "1")
T12 == Row("1", "0", "0", "0") \o <<" ">> \o Row("0", "1", "0", "0") \o <<" ">>
         \o Row("5", "6", "7", "1")
TransformValues == { T16, T12, T16 \o <<" ", "2">>, <<>>, <<"x">> \o Tail(T16), <<"x">> }

\* documents with one object whose transform element varies
TransformDocs ==
    { Model(<<Resources(<<Object(NameA, <<UnitMesh, Transform(Value(v))>>)>>)>>) :
        v \in TransformValues }
    \cup { Model(<<Resources(<<Object(NameA, <<UnitMesh, Transform({})>>)>>)>>),
           Model(<<Resources(<<Object(NameA, <<UnitMesh,
                Elem(Plain("components"), {}, <<Transform(Value(T16))>>),
                Transform(Value(T12))>>)>>)>>),
           Model(<<Resources(<<Object(NameA, <<UnitMesh, Color(Value(Red)),
                Transform(Value(T16))>>)>>)>>),
           Model(<<Resources(<<Object(NameA, <<UnitMesh, Color(Value(Red)),
                Transform(Value(T12))>>)>>)>>),
           Model(<<Resources(<<Object(NameA, <<UnitMesh,
                Elem(Plain("components"), {},
                     <<Elem(Plain("component"), {}, <<Color(Value(Red))>>), Transform(Value(T16))>>),
                Color(Value(<<"#", "0", "0", "F", "F", "0", "0">>)),
                Transform(Value(T12))>>)>>)>>) }

LenientMesh ==
    Mesh(<<Vertex({<<"y", <<"-", "7">>>>}), Vertex({})>>,
         <<Triangle({<<"v2", <<"9">>>>}), Triangle(V123(<<"-", "1">>, <<"0">>, <<"1">>))>>)

\* meshes that lack a part, hold it one level down, or hold it empty
MeshPool ==
    LET vertices == Elem(Plain("vertices"), {}, <<Vertex(XYZ(<<"1">>, <<"2">>, <<"3">>))>>)
        triangles == Elem(Plain("triangles"), {}, <<Tri012>>)
        Of(children) == Elem(Plain("mesh"), {}, children)
    IN  { Of(<<>>), Of(<<vertices>>), Of(<<triangles>>),
          Of(<<Elem(Plain("group"), {}, <<vertices>>), triangles>>),
          Of(<<vertices, Elem(Plain("group"), {}, <<triangles>>)>>),
          Of(<<Elem(Plain("vertices"), {}, <<>>), Elem(Plain("triangles"), {}, <<>>)>>),
          Of(<<Elem(Plain("vertices"), {}, <<>>), triangles>>),
          Of(<<vertices, Elem(Plain("triangles"), {}, <<>>)>>) }

\* documents with such a mesh, alone or after an object that builds
PartialMeshDocs ==
    { Model(<<Resources(<<Object({}, <<m>>)>>)>>) : m \in MeshPool }
    \cup { Model(<<Resources(<<Object(NameA, <<UnitMesh>>), Object({}, <<m>>)>>)>>) : m \in MeshPool }

\* documents whose first object leaves attributes out, next to other objects
LenientDocs ==
    { Model(<<Resources(<<Object({}, <<LenientMesh>>), Object(NameA, <<UnitMesh>>)>>)>>),
      Model(<<Resources(<<Object(NameA, <<UnitMesh>>), Object({}, <<LenientMesh, Color({})>>)>>)>>) }

SmallMesh == Mesh(<<Vertex(XYZ(<<"1">>, <<"2">>, <<"3">>))>>, <<>>)

\* the object elements a document is assembled from
ObjectPool ==
    { Object(NameA, <<UnitMesh>>),
      Object({}, <<UnitMesh>>),
      Object({}, <<SmallMesh>>),
      Object(NameA, <<>>),
      Object({}, <<Elem(Plain("components"), {}, <<>>)>>),
      Object({}, <<UnitMesh, Color(Value(<<"#", "Z", "Z", "Z", "Z", "Z", "Z">>))>>),
      Object({<<"name", DefaultName(0)>>}, <<SmallMesh>>) }

ObjectLists == SeqsUpTo(ObjectPool, MaxObjects)

\* documents with several objects, inside or outside of a resources element
ObjectDocs ==
    { Model(<<Resources(os)>>) : os \in ObjectLists }
    \cup { Model(<<Elem(Plain("build"), {}, <<>>), Resources(os), Resources(<<Object(NameA, <<UnitMesh>>)>>)>>) :
            os \in SeqsUpTo(ObjectPool, 1) }
    \cup { Model(os) : os \in SeqsUpTo(ObjectPool, 1) }
    \cup { Resources(os) : os \in SeqsUpTo(ObjectPool, 1) }
    \cup { Model(<<Resources(<<Object({}, <<Object({}, <<SmallMesh>>)>>), o>>)>>) : o \in ObjectPool }

CoreNS == "http://schemas.microsoft.com/3dmanufacturing/core/2015/02"

\* the document as it reads under xmlns="uri": every tag without namespace
\* is in the default namespace
RECURSIVE InNamespace(_, _)
InNamespace(e, uri) ==
    Elem(IF e.tag[1] = "" THEN <<uri, e.tag[2]>> ELSE e.tag,
         e.attrib,
         [i \in 1..Len(e.children) |-> InNamespace(e.children[i], uri)])

DocA == Model(<<Resources(<<Object(NameA, <<UnitMesh>>)>>)>>)
DocB == Model(<<Resources(<<Object({}, <<SmallMesh>>)>>)>>)

TwoColors ==
    Model(<<Resources(<<
        Object({}, <<UnitMesh, Color(Value(<<"#", "F", "0", "8", "0", "0", "F", "4", "0">>))>>),
        Object({}, <<SmallMesh, Color(Value(<<"#", "0", "0", "F", "F", "0", "0">>))>>)>>)>>)

\* documents that declare the 3MF core namespace
NamespacedDocs ==
    { InNamespace(d, CoreNS) : d \in {DocA, DocB, TwoColors} }

Zip(entries) == [zip |-> TRUE, entries |-> entries]
Entry(name, data) == [name |-> name, data |-> data]

\* archives whose directory varies
EntryPool ==
    { Entry(n, d) : n \in EntryNames, d \in {Some(DocA), Some(DocB)} }
    \cup { Entry(NameStd, None) }

DirectoryFiles == { Zip(es) : es \in SeqsUpTo(EntryPool, MaxEntries) }

Files ==
    DirectoryFiles
    \cup { Zip(<<Entry(NameStd, Some(d))>>) :
            d \in GeometryDocs \cup ColorDocs \cup TransformDocs \cup ObjectDocs
                    \cup LenientDocs \cup PartialMeshDocs
                    \cup NamespacedDocs \cup {TwoColors} }
    \cup { [zip |-> FALSE, entries |-> <<>>] }

\* the files of a sequence of calls: not a zip, no model entry, a payload that
\* is not well-formed, two unnamed objects, an object that fails after one
\* that was assembled, and a named object
RepeatFiles ==
    { [zip |-> FALSE, entries |-> <<>>],
      Zip(<<Entry(NameBak, Some(DocA))>>),
      Zip(<<Entry(NameStd, None)>>),
      Zip(<<Entry(NameStd, Some(Model(<<Resources(<<Object({}, <<UnitMesh>>),
                                                     Object({}, <<SmallMesh>>)>>)>>)))>>),
      Zip(<<Entry(NameStd, Some(Model(<<Resources(<<Object({}, <<SmallMesh>>),
            Object({}, <<UnitMesh, Color(Value(<<"#", "Z", "Z", "Z", "Z", "Z", "Z">>))>>)>>)>>)))>>),
      Zip(<<Entry(NameStd, Some(Model(<<Resources(<<Object(NameA, <<UnitMesh,
            Color(Value(Red)), Transform(Value(T16))>>)>>)>>)))>>) }

\* --------------------------------------------------------------- viewer.py
\* A float is [nan, v]; v counts hundredths for an intensity multiplier and
\* thousandths for the intensity of a light (base in tenths * multiplier).
Float(v) == [nan |-> FALSE, v |-> v]
NaN == [nan |-> TRUE, v |-> 0]

\* a < b on floats: every comparison with nan is false
Lt(a, b) == ~a.nan /\ ~b.nan /\ a.v < b.v

\* min(a, b) and max(a, b) of Python: the first argument unless the second
\* is smaller (greater)
PyMin(a, b) == IF Lt(b, a) THEN b ELSE a
PyMax(a, b) == IF Lt(a, b) THEN b ELSE a

\* base * intensity, base in tenths
Times(base, x) == IF x.nan THEN NaN ELSE Float(base * x.v)

\* self._base_intensities
base_intensities == [ambient |-> 3, key |-> 6, fill |-> 4, rim |-> 3]

\* vtkLight(): a new light is switched on
Light(intensity) == [switch |-> 1, intensity |-> intensity]

\* _setup_lighting: every light is removed and made anew
setup_lighting(v) ==
    [v EXCEPT !.lights =
        [name \in {"ambient", "key", "fill", "rim"} |->
            Light(Times(base_intensities[name], v.current_intensity))]]

Clamp_UpperOnly(intensity) == PyMin(Float(300), intensity)

\* max(0.5, min(3.0, intensity))
Clamp(intensity) == PyMax(Float(50), PyMin(Float(300), intensity))

\* set_light_intensity(intensity)
set_light_intensity(v, intensity) ==
    [v EXCEPT !.current_intensity = Clamp(intensity),
              !.intensity_arg = Some(intensity),
              !.lights = [name \in DOMAIN v.lights |->
                            IF name \in DOMAIN base_intensities
                            THEN [v.lights[name] EXCEPT
                                    !.intensity = Times(base_intensities[name], Clamp(intensity))]
                            ELSE v.lights[name]]]

\* toggle_light(light_name, enabled)
toggle_light(v, light_name, enabled) ==
    IF light_name \in DOMAIN v.lights
    THEN [v EXCEPT !.lights[light_name].switch = IF enabled THEN 1 ELSE 0,
                   !.wanted_off = IF enabled THEN @ \ {light_name} ELSE @ \cup {light_name}]
    ELSE v

\* the values of a dict
Values(d) == {d[k] : k \in DOMAIN d}

\* d[k] = x
Put(d, k, x) == [y \in DOMAIN d \cup {k} |-> IF y = k THEN x ELSE d[y]]

\* {}
EmptyDict == [k \in {} |-> 0]

\* clear_scene: RemoveActor for every value of self.actors; self.actors.clear()
clear_scene(v) ==
    [v EXCEPT !.in_renderer = @ \ Values(v.actors),
              !.actors = EmptyDict,
              !.cleared = TRUE]

\* self.renderer.AddActor(actor); self.actors[name] = actor
AddActor(v, name, actor) ==
    [v EXCEPT !.in_renderer = @ \cup {actor},
              !.actors = Put(v.actors, name, actor),
              !.cleared = FALSE]

\* the first n objects of a load, added one by one; the actor of the k-th
\* object of the load numbered op is <<op, k>>
RECURSIVE AddActors(_, _, _, _)
AddActors(v, names, n, op) ==
    IF n = 0 THEN v
    ELSE AddActor(AddActors(v, names, n - 1, op), names[n], <<op, n>>)

\* reset_view: the camera moves, the lights keep their place
reset_view(v) == v

\* _cleanup_axes: the finally block resets the three attributes
cleanup_axes(v) ==
    [v EXCEPT !.axes_widget = None,
              !.axes_actor = None,
              !.axes_initialized = FALSE,
              !.cleaned = TRUE]

initialize_axes_Recreates(v, fails) ==
    IF ~v.interactor THEN v
    ELSE LET made == [v EXCEPT !.axes_actor = Some([visible |-> v.show_axes]),
                               !.axes_widget = Some([enabled |-> v.show_axes]),
                               !.overlap = @ \/ (v.axes_initialized /\ v.axes_widget /= None),
                               !.cleaned = FALSE]
         IN  IF fails THEN cleanup_axes(made)
             ELSE [made EXCEPT !.axes_initialized = TRUE]

\* _initialize_axes: nothing to do for an initialized widget; a widget that
\* is not initialized is cleaned up first; an exception on the way (fails)
\* ends in _cleanup_axes
initialize_axes(v, fails) ==
    IF v.axes_widget /= None /\ v.axes_initialized THEN v
    ELSE LET s == IF v.axes_widget /= None THEN cleanup_axes(v) ELSE v
             made == [s EXCEPT !.axes_actor = Some([visible |-> s.show_axes]),
                               !.axes_widget = Some([enabled |-> s.show_axes]),
                               !.overlap = @ \/ (s.axes_initialized /\ s.axes_widget /= None),
                               !.cleaned = FALSE]
         IN  IF ~s.interactor THEN s
             ELSE IF fails THEN cleanup_axes(made)
             ELSE [made EXCEPT !.axes_initialized = TRUE]

\* self._axes_widget.SetEnabled(show); self._axes_actor.SetVisibility(show)
SetEnabled(v, show) ==
    [v EXCEPT !.axes_widget = Some([enabled |-> show]),
              !.axes_actor = IF @ = None THEN @ ELSE Some([visible |-> show])]

\* toggle_axes(show); init_fails, enable_fails and again_fails say which of
\* the VTK calls on the way raise
toggle_axes(v, show, init_fails, enable_fails, again_fails) ==
    IF v.show_axes = show /\ v.axes_initialized THEN v
    ELSE LET s1 == [v EXCEPT !.show_axes = show]
             s2 == IF s1.axes_widget = None \/ ~s1.axes_initialized
                   THEN initialize_axes(s1, init_fails)
                   ELSE s1
             s3 == initialize_axes(cleanup_axes(s2), again_fails)
         IN  IF ~s1.interactor THEN s1
             ELSE IF s2.axes_widget = None THEN s2
             ELSE IF ~enable_fails THEN SetEnabled(s2, show)
             ELSE IF ~show THEN s2
             ELSE IF s3.axes_widget /= None THEN SetEnabled(s3, TRUE)
             ELSE s3

\* ModelViewer.__init__: the lights at intensity 1.0, the axes when the render
\* window has an interactor
Constructed(interactor) ==
    LET fresh == [actors |-> EmptyDict, in_renderer |-> {}, cleared |-> FALSE,
                  lights |-> EmptyDict, current_intensity |-> Float(100),
                  intensity_arg |-> None, wanted_off |-> {},
                  interactor |-> interactor, show_axes |-> TRUE,
                  axes_widget |-> None, axes_actor |-> None,
                  axes_initialized |-> FALSE, overlap |-> FALSE, cleaned |-> FALSE]
        lit == setup_lighting(fresh)
        axes == IF interactor THEN initialize_axes(lit, FALSE) ELSE lit
    IN  IF axes.axes_widget /= None THEN toggle_axes(axes, axes.show_axes, FALSE, FALSE, FALSE)
        ELSE axes

\* ----------------------------------------------------------- state machine
VARIABLES
    pc,          \* where the call of load_3mf stands
    file_path,   \* the file the call was given
    zf,          \* the archive handle: "none", "open", "closed"
    name_idx,    \* position of `for name in zf.namelist()`
    model_file,  \* None or the entry name found
    root,        \* None or the parsed document
    resources,   \* None or the element found by root.find('.//resources')
    obj_idx,     \* position of `for obj in resources.findall('.//object')`
    objects,     \* the list being accumulated
    origin,      \* history: for each element of objects, the obj_idx that appended it
    exc,         \* None or the exception in flight inside the with block
    returned,    \* None or the list the caller received
    raised,      \* None or the exception the caller received
    log,         \* history: the file and the result of every finished call
    gui_pc,      \* where MainWindow._on_file_selected and the viewer stand
    selection,   \* the tree item that was double-clicked
    shown,       \* the messages the status bar was given by the handler
    emitted,     \* the values model_loaded was emitted with
    success,     \* None or the value the load method returned
    load_raised, \* None or the exception the load method raised
    gui_exc,     \* None or the exception in flight in the viewer
    escaped,     \* None or the exception that left the handler
    viewer,      \* the attributes of the ModelViewer and the renderer's actors
    ops          \* the number of viewer operations called so far

load_vars == <<pc, file_path, zf, name_idx, model_file, root, resources, obj_idx,
               objects, origin, exc, returned, raised, log>>

gui_vars == <<gui_pc, selection, shown, emitted, success, load_raised, gui_exc, escaped>>

viewer_vars == <<viewer, ops>>

vars == <<load_vars, gui_vars, viewer_vars>>

Error(type, msg) == [type |-> type, msg |-> msg]

NoFile == [zip |-> FALSE, entries |-> <<>>]

\* what the caller of a finished call saw
Result(f, ret, err) == [file |-> f, returned |-> ret, raised |-> err]

NoSelection ==
    [item |-> FALSE, path |-> "", kind |-> "missing", ext |-> "", content |-> NoFile,
     points |-> 0]

Init ==
    /\ pc = "idle"
    /\ file_path = NoFile
    /\ zf = "none"
    /\ name_idx = 0
    /\ model_file = None
    /\ root = None
    /\ resources = None
    /\ obj_idx = 0
    /\ objects = <<>>
    /\ origin = <<>>
    /\ exc = None
    /\ returned = None
    /\ raised = None
    /\ log = <<>>
    /\ gui_pc = "ready"
    /\ selection = NoSelection
    /\ shown = <<>>
    /\ emitted = <<>>
    /\ success = None
    /\ load_raised = None
    /\ gui_exc = None
    /\ escaped = None
    /\ viewer = Constructed(TRUE)
    /\ ops = 0

\* zf.namelist()
NameList(f) == [i \in 1..Len(f.entries) |-> f.entries[i].name]

\* zf.read(name): the archive's name table keeps, for each name, the entry
\* that comes last in the directory
ZipRead(f, name) ==
    LET last == CHOOSE i \in 1..Len(f.entries) :
                    /\ f.entries[i].name = name
                    /\ \A j \in (i + 1)..Len(f.entries) : f.entries[j].name /= name
    IN  f.entries[last].data

Enter_KeepsObjects(f) ==
    /\ pc' = "open"
    /\ file_path' = f
    /\ zf' = "none"
    /\ name_idx' = 0
    /\ model_file' = None
    /\ root' = None
    /\ resources' = None
    /\ obj_idx' = 0
    /\ exc' = None
    /\ returned' = None
    /\ raised' = None
    /\ UNCHANGED <<objects, origin, log, gui_vars, viewer_vars>>

\* entering load_3mf(file_path): a fresh frame, objects = []
Enter(f) ==
    /\ pc' = "open"
    /\ file_path' = f
    /\ zf' = "none"
    /\ name_idx' = 0
    /\ model_file' = None
    /\ root' = None
    /\ resources' = None
    /\ obj_idx' = 0
    /\ objects' = <<>>
    /\ origin' = <<>>
    /\ exc' = None
    /\ returned' = None
    /\ raised' = None
    /\ UNCHANGED <<log, gui_vars, viewer_vars>>

\* the first call of load_3mf
Call(f) == pc = "idle" /\ Enter(f)

\* a further call, after an earlier one returned or raised
CallAgain(f) ==
    /\ pc \in {"done", "raised"}
    /\ Len(log) < MaxCalls
    /\ Enter(f)

\* with zipfile.ZipFile(file_path, 'r') as zf
OpenZip ==
    /\ pc = "open"
    /\ IF file_path.zip
       THEN /\ zf' = "open"
            /\ name_idx' = 1
            /\ pc' = "scan"
            /\ UNCHANGED <<raised, log>>
       ELSE /\ raised' = Some(Error(BadZipFile, "File is not a zip file"))
            /\ pc' = "raised"
            /\ log' = Append(log, Result(file_path, None, raised'))
            /\ UNCHANGED <<zf, name_idx>>
    /\ UNCHANGED <<file_path, model_file, root, resources, obj_idx, objects, origin, exc, returned>>
    /\ UNCHANGED <<gui_vars, viewer_vars>>

\* one pass of `for name in zf.namelist()`
ScanName ==
    /\ pc = "scan"
    /\ IF name_idx > Len(NameList(file_path))
       THEN /\ pc' = "check"
            /\ UNCHANGED <<model_file, name_idx>>
       ELSE IF EndsWith(NameList(file_path)[name_idx], Suffix)
       THEN /\ model_file' = Some(NameList(file_path)[name_idx])
            /\ pc' = "check"
            /\ UNCHANGED name_idx
       ELSE /\ name_idx' = name_idx + 1
            /\ UNCHANGED <<pc, model_file>>
    /\ UNCHANGED <<file_path, zf, root, resources, obj_idx, objects, origin, exc, returned, raised>>
    /\ UNCHANGED <<log, gui_vars, viewer_vars>>

CheckModel_NoRaise ==
    /\ pc = "check"
    /\ pc' = IF model_file = None \/ model_file = Some(<<>>) THEN "exit" ELSE "read"
    /\ UNCHANGED <<file_path, zf, name_idx, model_file, root, resources, obj_idx,
                   objects, origin, exc, returned, raised>>
    /\ UNCHANGED <<log, gui_vars, viewer_vars>>

\* if not model_file: raise ValueError(...)
CheckModel ==
    /\ pc = "check"
    /\ IF model_file = None \/ model_file = Some(<<>>)
       THEN /\ exc' = Some(Error(ValueError, "No 3D model found in 3MF file"))
            /\ pc' = "unwind"
       ELSE /\ pc' = "read"
            /\ exc' = exc
    /\ UNCHANGED <<file_path, zf, name_idx, model_file, root, resources, obj_idx,
                   objects, origin, returned, raised>>
    /\ UNCHANGED <<log, gui_vars, viewer_vars>>

\* xml_content = zf.read(model_file); root = ET.fromstring(xml_content)
ReadModel ==
    /\ pc = "read"
    /\ IF ZipRead(file_path, model_file[1]) = None
       THEN /\ exc' = Some(Error(ParseError, "not well-formed"))
            /\ pc' = "unwind"
            /\ root' = root
       ELSE /\ root' = ZipRead(file_path, model_file[1])
            /\ pc' = "resources"
            /\ exc' = exc
    /\ UNCHANGED <<file_path, zf, name_idx, model_file, resources, obj_idx,
                   objects, origin, returned, raised>>
    /\ UNCHANGED <<log, gui_vars, viewer_vars>>

FindResources_Last ==
    /\ pc = "resources"
    /\ resources' = LET all == FindAllDesc(root[1], Plain("resources"))
                    IN  IF all = <<>> THEN None ELSE Some(all[Len(all)])
    /\ IF resources' = None
       THEN pc' = "exit" /\ obj_idx' = obj_idx
       ELSE pc' = "loop" /\ obj_idx' = 1
    /\ UNCHANGED <<file_path, zf, name_idx, model_file, root, objects, origin,
                   exc, returned, raised>>
    /\ UNCHANGED <<log, gui_vars, viewer_vars>>

FindResources_Required ==
    /\ pc = "resources"
    /\ resources' = FindDesc(root[1], Plain("resources"))
    /\ IF resources' = None
       THEN /\ pc' = "unwind"
            /\ obj_idx' = obj_idx
            /\ exc' = Some(Error(ValueError, "no resources"))
       ELSE pc' = "loop" /\ obj_idx' = 1 /\ exc' = exc
    /\ UNCHANGED <<file_path, zf, name_idx, model_file, root, objects, origin,
                   returned, raised>>
    /\ UNCHANGED <<log, gui_vars, viewer_vars>>

\* resources = root.find('.//resources'); if resources is not None
FindResources ==
    /\ pc = "resources"
    /\ resources' = FindDesc(root[1], Plain("resources"))
    /\ IF resources' = None
       THEN pc' = "exit" /\ obj_idx' = obj_idx
       ELSE pc' = "loop" /\ obj_idx' = 1
    /\ UNCHANGED <<file_path, zf, name_idx, model_file, root, objects, origin,
                   exc, returned, raised>>
    /\ UNCHANGED <<log, gui_vars, viewer_vars>>

ObjectElems_ChildrenOnly == FindAllChild(resources[1], Plain("object"))

\* resources.findall('.//object')
ObjectElems == FindAllDesc(resources[1], Plain("object"))

LoopObject_CountsElements ==
    /\ pc = "loop"
    /\ IF obj_idx > Len(ObjectElems)
       THEN /\ pc' = "exit"
            /\ UNCHANGED <<obj_idx, objects, origin, exc>>
       ELSE IF FindDesc(ObjectElems[obj_idx], Plain("mesh")) = None
       THEN /\ obj_idx' = obj_idx + 1
            /\ UNCHANGED <<pc, objects, origin, exc>>
       ELSE LET built == BuildObject(ObjectElems[obj_idx], obj_idx - 1)
            IN  IF built.raised /= None
                THEN /\ exc' = Some(Error(built.raised[1], "object"))
                     /\ pc' = "unwind"
                     /\ UNCHANGED <<obj_idx, objects, origin>>
                ELSE /\ objects' = Append(objects, built.object[1])
                     /\ origin' = Append(origin, obj_idx)
                     /\ obj_idx' = obj_idx + 1
                     /\ UNCHANGED <<pc, exc>>
    /\ UNCHANGED <<file_path, zf, name_idx, model_file, root, resources, returned, raised>>
    /\ UNCHANGED <<log, gui_vars, viewer_vars>>

\* one pass of `for obj in resources.findall('.//object')`
LoopObject ==
    /\ pc = "loop"
    /\ IF obj_idx > Len(ObjectElems)
       THEN /\ pc' = "exit"
            /\ UNCHANGED <<obj_idx, objects, origin, exc>>
       ELSE IF FindDesc(ObjectElems[obj_idx], Plain("mesh")) = None
       THEN /\ obj_idx' = obj_idx + 1
            /\ UNCHANGED <<pc, objects, origin, exc>>
       ELSE LET built == BuildObject(ObjectElems[obj_idx], Len(objects))
            IN  IF built.raised /= None
                THEN /\ exc' = Some(Error(built.raised[1], "object"))
                     /\ pc' = "unwind"
                     /\ UNCHANGED <<obj_idx, objects, origin>>
                ELSE /\ objects' = Append(objects, built.object[1])
                     /\ origin' = Append(origin, obj_idx)
                     /\ obj_idx' = obj_idx + 1
                     /\ UNCHANGED <<pc, exc>>
    /\ UNCHANGED <<file_path, zf, name_idx, model_file, root, resources, returned, raised>>
    /\ UNCHANGED <<log, gui_vars, viewer_vars>>

ExitWith_Swallows ==
    /\ pc \in {"exit", "unwind"}
    /\ zf' = "closed"
    /\ exc' = None
    /\ pc' = "return"
    /\ log' = log
    /\ UNCHANGED <<file_path, name_idx, model_file, root, resources, obj_idx,
                   objects, origin, returned, raised>>
    /\ UNCHANGED <<gui_vars, viewer_vars>>

ExitWith_LeaksOnError ==
    /\ pc \in {"exit", "unwind"}
    /\ IF exc /= None
       THEN /\ raised' = exc
            /\ exc' = None
            /\ pc' = "raised"
            /\ zf' = zf
            /\ log' = Append(log, Result(file_path, None, exc))
       ELSE /\ pc' = "return"
            /\ zf' = "closed"
            /\ UNCHANGED <<raised, exc, log>>
    /\ UNCHANGED <<file_path, name_idx, model_file, root, resources, obj_idx,
                   objects, origin, returned>>
    /\ UNCHANGED <<gui_vars, viewer_vars>>

\* leaving the with block closes the archive; an exception in flight then
\* reaches the caller
ExitWith ==
    /\ pc \in {"exit", "unwind"}
    /\ zf' = "closed"
    /\ IF exc /= None
       THEN /\ raised' = exc
            /\ exc' = None
            /\ pc' = "raised"
            /\ log' = Append(log, Result(file_path, None, exc))
       ELSE /\ pc' = "return"
            /\ UNCHANGED <<raised, exc, log>>
    /\ UNCHANGED <<file_path, name_idx, model_file, root, resources, obj_idx,
                   objects, origin, returned>>
    /\ UNCHANGED <<gui_vars, viewer_vars>>

\* return objects
Return ==
    /\ pc = "return"
    /\ returned' = Some(objects)
    /\ pc' = "done"
    /\ log' = Append(log, Result(file_path, returned', None))
    /\ UNCHANGED <<file_path, zf, name_idx, model_file, root, resources, obj_idx,
                   objects, origin, exc, raised>>
    /\ UNCHANGED <<gui_vars, viewer_vars>>

Next ==
    \/ \E f \in Files : Call(f)
    \/ OpenZip
    \/ ScanName
    \/ CheckModel
    \/ ReadModel
    \/ FindResources
    \/ LoopObject
    \/ ExitWith
    \/ Return

Spec == Init /\ [][Next]_vars

\* a sequence of calls of load_3mf
NextRepeat ==
    \/ \E f \in RepeatFiles : Call(f)
    \/ \E f \in RepeatFiles : CallAgain(f)
    \/ OpenZip
    \/ ScanName
    \/ CheckModel
    \/ ReadModel
    \/ FindResources
    \/ LoopObject
    \/ ExitWith
    \/ Return

SpecRepeat == Init /\ [][NextRepeat]_vars

\* ------------------------------------------------------------ the GUI host
FileNotFoundError == "FileNotFoundError"
PermissionError == "PermissionError"
RuntimeError == "RuntimeError"

\* the base class of each exception class
Bases ==
    [c \in {ValueError, AttributeError, BadZipFile, ParseError, FileNotFoundError,
            PermissionError, RuntimeError, "SyntaxError", "OSError", "Exception"} |->
        CASE c = ParseError -> "SyntaxError"
          [] c \in {FileNotFoundError, PermissionError} -> "OSError"
          [] c = "Exception" -> "BaseException"
          [] OTHER -> "Exception"]

\* isinstance(e, class) for an exception e of class type
RECURSIVE IsInstance(_, _)
IsInstance(type, class) ==
    \/ type = class
    \/ type \in DOMAIN Bases /\ IsInstance(Bases[type], class)

\* self.file_filters
file_filters == {".stl", ".3mf"}

\* ext.lower()
Lower(ext) == IF ext = ".3MF" THEN ".3mf" ELSE IF ext = ".STL" THEN ".stl" ELSE ext

\* the load methods of ModelViewer, by their names
ViewerLoaders == {"load_stl", "load_3mf"}

\* 'load_' + ext[1:]
LoaderName(ext) ==
    CASE ext = ".stl" -> "load_stl"
      [] ext = ".3mf" -> "load_3mf"
      [] OTHER -> "load_"

Selected(kind, ext, content, points) ==
    [item |-> TRUE, path |-> "path", kind |-> kind, ext |-> ext, content |-> content,
     points |-> points]

\* the items a double click can land on
Selections ==
    { NoSelection, [NoSelection EXCEPT !.item = TRUE] }
    \cup { Selected(kind, ".3mf", NoFile, 0) : kind \in {"dir", "missing", "special", "unreadable"} }
    \cup { Selected("file", ext, f, 0) : ext \in {".3mf", ".3MF"}, f \in RepeatFiles }
    \cup { Selected("file", ".stl", NoFile, n) : n \in {0, 3} }
    \cup { Selected("file", ".txt", NoFile, 0) }

Show(message) == shown' = Append(shown, message)

\* file_tree.doubleClicked -> _on_file_selected(index)
DoubleClicked(s) ==
    /\ gui_pc = "ready"
    /\ selection' = s
    /\ gui_pc' = "handler"
    /\ UNCHANGED <<shown, emitted, success, load_raised, gui_exc, escaped>>
    /\ UNCHANGED <<load_vars, viewer_vars>>

\* _on_file_selected up to the attempt to open the file for reading
OnFileSelected_Check ==
    /\ gui_pc = "handler"
    /\ IF ~selection.item \/ selection.path = ""
       THEN gui_pc' = "returned" /\ shown' = shown
       ELSE IF selection.kind = "dir"
       THEN /\ gui_pc' = "returned"
            /\ \E populate \in {"ok", PermissionError, "Exception"} :
                 IF populate = "ok" THEN shown' = shown
                 ELSE IF IsInstance(populate, PermissionError)
                 THEN Show("Permission denied: Cannot access directory ")
                 ELSE Show("Error accessing directory: ")
       ELSE IF selection.kind = "missing"
       THEN gui_pc' = "returned" /\ Show("File not found: ")
       ELSE IF selection.kind = "special"
       THEN gui_pc' = "returned" /\ Show("Not a file: ")
       ELSE IF selection.kind = "unreadable"
       THEN gui_pc' = "returned" /\ Show("Permission denied: Cannot read file ")
       ELSE gui_pc' = "dispatch" /\ shown' = shown
    /\ UNCHANGED <<selection, emitted, success, load_raised, gui_exc, escaped>>
    /\ UNCHANGED <<load_vars, viewer_vars>>

\* the choice of the load method by the extension
OnFileSelected_Dispatch ==
    /\ gui_pc = "dispatch"
    /\ IF Lower(selection.ext) \in file_filters
       THEN IF LoaderName(Lower(selection.ext)) \in ViewerLoaders
            THEN gui_pc' = "call" /\ shown' = shown
            ELSE gui_pc' = "returned" /\ Show("No loader available for ")
       ELSE gui_pc' = "returned" /\ shown' = shown
    /\ UNCHANGED <<selection, emitted, success, load_raised, gui_exc, escaped>>
    /\ UNCHANGED <<load_vars, viewer_vars>>

\* load_stl / load_3mf: if not self.file_exists(file_path): raise; the file
\* may have gone since the handler looked
Viewer_FileExists ==
    /\ gui_pc = "call"
    /\ \E present \in BOOLEAN :
        IF present
        THEN gui_pc' = "clear" /\ gui_exc' = gui_exc
        ELSE /\ gui_exc' = Some(Error(FileNotFoundError, "file not found or not accessible"))
             /\ gui_pc' = "propagate"
    /\ UNCHANGED <<selection, shown, emitted, success, load_raised, escaped>>
    /\ UNCHANGED <<load_vars, viewer_vars>>

\* the start of the try block: clear_scene, and in load_stl _setup_lighting
\* twice; a VTK call may raise
Viewer_ClearScene ==
    /\ gui_pc = "clear"
    /\ \E ok \in BOOLEAN :
        IF ok
        THEN /\ gui_pc' = IF Lower(selection.ext) = ".3mf" THEN "parse" ELSE "read"
             /\ gui_exc' = gui_exc
             /\ viewer' = IF Lower(selection.ext) = ".3mf"
                           THEN clear_scene(viewer)
                           ELSE setup_lighting(setup_lighting(clear_scene(viewer)))
        ELSE /\ gui_exc' = Some(Error(RuntimeError, "vtk"))
             /\ gui_pc' = "except"
             /\ viewer' = viewer
    /\ UNCHANGED <<selection, shown, emitted, success, load_raised, escaped>>
    /\ UNCHANGED <<load_vars, ops>>

\* objects = load_3mf(file_path): the call
Viewer_CallParser ==
    /\ gui_pc = "parse"
    /\ Call(selection.content)

\* objects = load_3mf(file_path): the result
Viewer_Parsed ==
    /\ gui_pc = "parse"
    /\ pc \in {"done", "raised"}
    /\ IF raised /= None
       THEN gui_exc' = raised /\ gui_pc' = "except"
       ELSE gui_exc' = gui_exc /\ gui_pc' = "render"
    /\ UNCHANGED <<selection, shown, emitted, success, load_raised, escaped>>
    /\ UNCHANGED <<load_vars, viewer_vars>>

\* reader.Update(); no points: raise ValueError
Viewer_ReadStl ==
    /\ gui_pc = "read"
    /\ IF selection.points = 0
       THEN /\ gui_exc' = Some(Error(ValueError, "STL file contains no points"))
            /\ gui_pc' = "except"
       ELSE gui_exc' = gui_exc /\ gui_pc' = "render"
    /\ UNCHANGED <<selection, shown, emitted, success, load_raised, escaped>>
    /\ UNCHANGED <<load_vars, viewer_vars>>

\* os.path.basename(file_path) of the STL file
StlName == <<"m", ".", "s", "t", "l">>

\* the axes at the end of a load: load_stl initializes them when they are
\* not initialized, load_3mf calls _initialize_axes; then toggle_axes
LoadAxes(v, stl, show, fails) ==
    IF ~v.interactor THEN v
    ELSE IF stl /\ v.axes_initialized THEN toggle_axes(v, show, fails, FALSE, fails)
    ELSE toggle_axes(initialize_axes(v, fails), show, fails, FALSE, fails)

\* an actor for every object (for the STL model), reset_view, the axes and
\* the render; a VTK call may raise after n actors were added
Viewer_Render ==
    /\ gui_pc = "render"
    /\ LET stl == Lower(selection.ext) = ".stl"
           names == IF stl THEN <<StlName>>
                    ELSE [k \in 1..Len(returned[1]) |-> returned[1][k].name]
       IN  \E n \in 0..Len(names), ok \in BOOLEAN, fails \in BOOLEAN :
            IF ok
            THEN /\ n = Len(names)
                 /\ viewer' = LoadAxes(reset_view(AddActors(viewer, names, n, ops)),
                                       stl, viewer.show_axes, fails)
                 /\ gui_pc' = "emit"
                 /\ gui_exc' = gui_exc
            ELSE /\ ~fails
                 /\ viewer' = AddActors(viewer, names, n, ops)
                 /\ gui_exc' = Some(Error(RuntimeError, "vtk"))
                 /\ gui_pc' = "except"
    /\ UNCHANGED <<selection, shown, emitted, success, load_raised, escaped>>
    /\ UNCHANGED <<load_vars, ops>>

\* self.model_loaded.emit(True); return True
Viewer_Loaded ==
    /\ gui_pc = "emit"
    /\ emitted' = Append(emitted, TRUE)
    /\ success' = Some(TRUE)
    /\ gui_pc' = "loaded"
    /\ UNCHANGED <<selection, shown, load_raised, gui_exc, escaped>>
    /\ UNCHANGED <<load_vars, viewer_vars>>

\* the except clauses of the load method: emit(False); raise
Viewer_Except ==
    /\ gui_pc = "except"
    /\ IF \E class \in {FileNotFoundError, PermissionError, ValueError, "Exception"} :
            IsInstance(gui_exc[1].type, class)
       THEN emitted' = Append(emitted, FALSE)
       ELSE emitted' = emitted
    /\ gui_pc' = "propagate"
    /\ UNCHANGED <<selection, shown, success, load_raised, gui_exc, escaped>>
    /\ UNCHANGED <<load_vars, viewer_vars>>

\* the handler after the load method returned
OnFileSelected_Loaded ==
    /\ gui_pc = "loaded"
    /\ IF success = Some(TRUE)
       THEN \E stats \in {"ok", "statistics raise", "settings raise"} :
              shown' = CASE stats = "ok" -> Append(shown, "Loaded ")
                         [] stats = "statistics raise" ->
                              Append(shown, "Error getting model statistics: ")
                         [] stats = "settings raise" ->
                              shown \o <<"Loaded ", "Error getting model statistics: ">>
       ELSE Show("Failed to load model: ")
    /\ gui_pc' = "returned"
    /\ UNCHANGED <<selection, emitted, success, load_raised, gui_exc, escaped>>
    /\ UNCHANGED <<load_vars, viewer_vars>>

HandlerCatches_ValueError == ValueError

\* the class of the handler's except clause
HandlerCatches == "Exception"

\* the handler when the load method raised
OnFileSelected_Except ==
    /\ gui_pc = "propagate"
    /\ load_raised' = gui_exc
    /\ gui_exc' = None
    /\ IF IsInstance(gui_exc[1].type, HandlerCatches)
       THEN /\ Show("VTK Error: ")
            /\ gui_pc' = "returned"
            /\ escaped' = escaped
       ELSE /\ escaped' = gui_exc
            /\ gui_pc' = "escaped"
            /\ shown' = shown
    /\ UNCHANGED <<selection, emitted, success>>
    /\ UNCHANGED <<load_vars, viewer_vars>>

NextGui ==
    \/ \E s \in Selections : DoubleClicked(s)
    \/ OnFileSelected_Check
    \/ OnFileSelected_Dispatch
    \/ Viewer_FileExists
    \/ Viewer_ClearScene
    \/ Viewer_CallParser
    \/ OpenZip
    \/ ScanName
    \/ CheckModel
    \/ ReadModel
    \/ FindResources
    \/ LoopObject
    \/ ExitWith
    \/ Return
    \/ Viewer_Parsed
    \/ Viewer_ReadStl
    \/ Viewer_Render
    \/ Viewer_Loaded
    \/ Viewer_Except
    \/ OnFileSelected_Loaded
    \/ OnFileSelected_Except

SpecGui == Init /\ [][NextGui]_vars

\* ------------------------------------------------- the viewer's operations
\* archives for the viewer: two objects of one name, a payload that is not
\* well-formed, one object
TwinNames ==
    Model(<<Resources(<<Object(NameA, <<UnitMesh>>), Object(NameA, <<SmallMesh>>)>>)>>)

ViewerFiles ==
    { Zip(<<Entry(NameStd, Some(TwinNames))>>),
      Zip(<<Entry(NameStd, None)>>),
      Zip(<<Entry(NameStd, Some(DocB))>>) }

ViewerSelections ==
    { Selected("file", ".3mf", f, 0) : f \in ViewerFiles }
    \cup { Selected("file", ".stl", NoFile, n) : n \in {0, 3} }

\* multipliers below, at, inside and above the range, and nan
Intensities == {Float(25), Float(50), Float(175), Float(300), Float(350), NaN}

LightNames == {"key", "rim", "spot"}

\* an operation of the viewer is called by the host and leaves the viewer
\* in the state after
Operation(after) ==
    /\ ops' = ops + 1
    /\ viewer' = after
    /\ UNCHANGED <<load_vars, gui_vars>>

\* the host calls between loads, a bounded number of times
Callable == gui_pc = "ready" /\ ops < MaxOps

InitializeAxes ==
    /\ Callable
    /\ \E fails \in BOOLEAN : Operation(initialize_axes(viewer, fails))

ToggleAxes ==
    /\ Callable
    /\ \E show \in BOOLEAN, init_fails \in BOOLEAN, enable_fails \in BOOLEAN,
          again_fails \in BOOLEAN :
           Operation(toggle_axes(viewer, show, init_fails, enable_fails, again_fails))

CleanupAxes ==
    /\ Callable
    /\ Operation(cleanup_axes(viewer))

ClearScene ==
    /\ Callable
    /\ Operation(clear_scene(viewer))

ResetView ==
    /\ Callable
    /\ Operation(reset_view(viewer))

SetLightIntensity ==
    /\ Callable
    /\ \E x \in Intensities : Operation(set_light_intensity(viewer, x))

ToggleLight ==
    /\ Callable
    /\ \E name \in LightNames, enabled \in BOOLEAN :
           Operation(toggle_light(viewer, name, enabled))

\* load_stl(file_path) or load_3mf(file_path) is called; no call of the
\* parser is under way
Viewer_Load(s) ==
    /\ Callable
    /\ ops' = ops + 1
    /\ selection' = s
    /\ gui_pc' = "call"
    /\ emitted' = <<>>
    /\ success' = None
    /\ load_raised' = None
    /\ pc' = "idle"
    /\ UNCHANGED <<shown, gui_exc, escaped, viewer>>
    /\ UNCHANGED <<file_path, zf, name_idx, model_file, root, resources, obj_idx,
                   objects, origin, exc, returned, raised, log>>

\* the load method returns or raises to its caller
Viewer_Return ==
    /\ gui_pc \in {"loaded", "propagate"}
    /\ gui_pc' = "ready"
    /\ load_raised' = gui_exc
    /\ gui_exc' = None
    /\ UNCHANGED <<selection, shown, emitted, success, escaped>>
    /\ UNCHANGED <<load_vars, viewer_vars>>

InitViewer ==
    /\ pc = "idle"
    /\ file_path = NoFile
    /\ zf = "none"
    /\ name_idx = 0
    /\ model_file = None
    /\ root = None
    /\ resources = None
    /\ obj_idx = 0
    /\ objects = <<>>
    /\ origin = <<>>
    /\ exc = None
    /\ returned = None
    /\ raised = None
    /\ log = <<>>
    /\ gui_pc = "ready"
    /\ selection = NoSelection
    /\ shown = <<>>
    /\ emitted = <<>>
    /\ success = None
    /\ load_raised = None
    /\ gui_exc = None
    /\ escaped = None
    /\ \E interactor \in BOOLEAN : viewer = Constructed(interactor)
    /\ ops = 0

NextViewer ==
    \/ InitializeAxes
    \/ ToggleAxes
    \/ CleanupAxes
    \/ ClearScene
    \/ ResetView
    \/ SetLightIntensity
    \/ ToggleLight
    \/ \E s \in ViewerSelections : Viewer_Load(s)
    \/ Viewer_FileExists
    \/ Viewer_ClearScene
    \/ Viewer_CallParser
    \/ OpenZip
    \/ ScanName
    \/ CheckModel
    \/ ReadModel
    \/ FindResources
    \/ LoopObject
    \/ ExitWith
    \/ Return
    \/ Viewer_Parsed
    \/ Viewer_ReadStl
    \/ Viewer_Render
    \/ Viewer_Loaded
    \/ Viewer_Except
    \/ Viewer_Return

SpecViewer == InitViewer /\ [][NextViewer]_vars

\* ------------------------------------------------------------------ claims
Terminal == pc \in {"done", "raised"}

Local(e) == e.tag[2]

\* descendants with a local name, whatever their namespace, in document order
LocalDesc(e, local) ==
    LET Match(x) == Local(x) = local
    IN  SelectSeq(Tail(Iter(e)), Match)

LocalChildren(e, local) ==
    LET Match(x) == Local(x) = local
    IN  SelectSeq(e.children, Match)

ModelEntries(f) == {i \in 1..Len(f.entries) : EndsWith(f.entries[i].name, Suffix)}
FirstModelEntry(f) == CHOOSE i \in ModelEntries(f) : \A j \in ModelEntries(f) : i <= j

HexChars == {"0", "1", "2", "3", "4", "5", "6", "7", "8", "9",
             "A", "B", "C", "D", "E", "F", "a", "b", "c", "d", "e", "f"}
DecimalChars == {"0", "1", "2", "3", "4", "5", "6", "7", "8", "9"}

IsNumber(s) ==
    LET body == IF s /= <<>> /\ Head(s) = "-" THEN Tail(s) ELSE s
    IN  body /= <<>> /\ \A i \in 1..Len(body) : body[i] \in DecimalChars

IsHexColor(v, n) ==
    /\ Len(v) = n + 1
    /\ v[1] = "#"
    /\ \A i \in 2..(n + 1) : v[i] \in HexChars

HexPair(v, i) == 16 * DigitValue(v[i]) + DigitValue(v[i + 1])

RatEq(p, q) == p[1] * q[2] = q[1] * p[2]

\* a document of the 3MF core schema: one namespace throughout (the core
\* namespace, or none), objects inside the resources element, every mesh with
\* its vertices and triangles, every attribute present and of its type
ValidDocument(d) ==
    /\ Local(d) = "model"
    /\ d.tag[1] \in {"", CoreNS}
    /\ LocalChildren(d, "resources") /= <<>>
    /\ LocalDesc(d, "object") = LocalDesc(LocalChildren(d, "resources")[1], "object")
    /\ \A i \in 1..Len(Iter(d)) :
        LET e == Iter(d)[i] IN
        /\ e.tag[1] \in {d.tag[1], ns.m}
        /\ Local(e) = "mesh" =>
              LocalChildren(e, "vertices") /= <<>> /\ LocalChildren(e, "triangles") /= <<>>
        /\ Local(e) = "vertex" =>
              \A k \in {"x", "y", "z"} : Get(e, k) /= None /\ IsNumber(Get(e, k)[1])
        /\ Local(e) = "triangle" =>
              \A k \in {"v1", "v2", "v3"} : Get(e, k) /= None /\ IsNumber(Get(e, k)[1])
        /\ Local(e) = "color" =>
              Get(e, "value") /= None
              /\ (IsHexColor(Get(e, "value")[1], 6) \/ IsHexColor(Get(e, "value")[1], 8))
        /\ Local(e) = "transform" =>
              Get(e, "value") /= None
              /\ \A j \in 1..Len(Split(Get(e, "value")[1])) : IsNumber(Split(Get(e, "value")[1])[j])

ValidArchive(f) ==
    /\ f.zip
    /\ Cardinality(ModelEntries(f)) = 1
    /\ f.entries[FirstModelEntry(f)].data /= None
    /\ ValidDocument(f.entries[FirstModelEntry(f)].data[1])

Document(f) == f.entries[FirstModelEntry(f)].data[1]

MeshObjects(d) ==
    LET Bearing(o) == LocalDesc(o, "mesh") /= <<>>
    IN  SelectSeq(LocalDesc(d, "object"), Bearing)

NumberAt(e, k) == ParseInt(Get(e, k)[1], 10)[1]

SourceVertices(o) ==
    LocalChildren(LocalChildren(LocalDesc(o, "mesh")[1], "vertices")[1], "vertex")
SourceTriangles(o) ==
    LocalChildren(LocalChildren(LocalDesc(o, "mesh")[1], "triangles")[1], "triangle")

\* C1: a valid archive with exactly one mesh-bearing object of N vertices and
\* M triangles loads as a list of one object whose mesh has those N points
\* and M triangles in document order.
C1_OneObjectRoundTrip ==
    (Terminal /\ ValidArchive(file_path) /\ Len(MeshObjects(Document(file_path))) = 1) =>
        LET o == MeshObjects(Document(file_path))[1]
            vs == SourceVertices(o)
            ts == SourceTriangles(o)
        IN  /\ returned /= None
            /\ Len(returned[1]) = 1
            /\ returned[1][1].mesh.points
                 = [i \in 1..Len(vs) |->
                      <<NumberAt(vs[i], "x"), NumberAt(vs[i], "y"), NumberAt(vs[i], "z")>>]
            /\ returned[1][1].mesh.polys
                 = [i \in 1..Len(ts) |->
                      <<NumberAt(ts[i], "v1"), NumberAt(ts[i], "v2"), NumberAt(ts[i], "v3")>>]

HasMesh(e) == FindDesc(e, Plain("mesh")) /= None
Unnamed(e) == Get(e, "name") = None

SmallDecimal(n) ==
    <<<<"0">>, <<"1">>, <<"2">>, <<"3">>, <<"4">>, <<"5">>, <<"6">>, <<"7">>, <<"8">>, <<"9">>>>[n + 1]
ObjectNumber(n) == <<"O", "b", "j", "e", "c", "t", "_">> \o SmallDecimal(n)

\* C2: an object with a name attribute keeps that name; an object without one
\* is called Object_<n>, n being how many objects were appended before it.
C2_Names ==
    \A k \in 1..Len(objects) :
        IF Unnamed(ObjectElems[origin[k]])
        THEN objects[k].name = ObjectNumber(k - 1)
        ELSE objects[k].name = Get(ObjectElems[origin[k]], "name")[1]

C2_Witness ==
    /\ returned /= None
    /\ Len(returned[1]) = 3
    /\ Unnamed(ObjectElems[origin[3]])
    /\ returned[1][3].name = <<"O", "b", "j", "e", "c", "t", "_", "2">>
    /\ ~Unnamed(ObjectElems[origin[1]])
    /\ returned[1][1].name = Widget

\* C3: an object without a mesh adds nothing to the list, raises nothing, and
\* leaves the numbering of later unnamed objects alone: the n of Object_<n>
\* is the number of mesh-bearing objects before it.
C3_MeshlessSkipped ==
    /\ \A k \in 1..Len(objects) :
        /\ HasMesh(ObjectElems[origin[k]])
        /\ Unnamed(ObjectElems[origin[k]]) =>
             objects[k].name
               = ObjectNumber(Cardinality({j \in 1..(origin[k] - 1) : HasMesh(ObjectElems[j])}))
    /\ (pc = "unwind" /\ obj_idx >= 1) => HasMesh(ObjectElems[obj_idx])
    /\ (returned /= None /\ resources /= None) =>
         \A i \in 1..Len(ObjectElems) :
            ~HasMesh(ObjectElems[i]) => \A k \in 1..Len(origin) : origin[k] /= i

C3_Witness ==
    /\ returned /= None
    /\ resources /= None
    /\ Len(ObjectElems) = 3
    /\ ~HasMesh(ObjectElems[1])
    /\ ~HasMesh(ObjectElems[2])
    /\ Unnamed(ObjectElems[3])
    /\ Len(returned[1]) = 1
    /\ returned[1][1].name = <<"O", "b", "j", "e", "c", "t", "_", "0">>

\* the object elements under the first resources element of the document
ResourceObjects ==
    IF FindDesc(root[1], Plain("resources")) = None THEN <<>>
    ELSE FindAllDesc(FindDesc(root[1], Plain("resources"))[1], Plain("object"))

NoModelEntry(f) == f.zip /\ ModelEntries(f) = {}

\* C5 (as stated): without an entry ending in 3dmodel.model the load fails
\* with the message "no 3D model found" and returns no list.
C5_Original ==
    (Terminal /\ NoModelEntry(file_path)) =>
        /\ raised /= None
        /\ raised[1].msg = "no 3D model found"
        /\ returned = None

\* C5 (amended): without an entry ending in 3dmodel.model the load fails with
\* a ValueError whose message is "No 3D model found in 3MF file" and returns
\* no list.
C5_NoModelEntry ==
    (Terminal /\ NoModelEntry(file_path)) =>
        /\ raised /= None
        /\ raised[1] = Error(ValueError, "No 3D model found in 3MF file")
        /\ returned = None

C5_Witness ==
    /\ pc = "raised"
    /\ NoModelEntry(file_path)
    /\ Len(file_path.entries) >= 2
    /\ returned = None

\* C6: the document parsed is the content of the first entry, in directory
\* order, whose name ends in 3dmodel.model.
C6_FirstEntryRead ==
    root /= None => root = file_path.entries[FirstModelEntry(file_path)].data

ColorElems(e) == FindAllDesc(e, Qualified(ns.m, "color"))
HasColorValue(e) == ColorElems(e) /= <<>> /\ Get(ColorElems(e)[1], "value") /= None
ColorValueOf(e) == Get(ColorElems(e)[1], "value")[1]

ColoredObjects ==
    IF root = None THEN {}
    ELSE {i \in 1..Len(ResourceObjects) :
            HasMesh(ResourceObjects[i]) /\ HasColorValue(ResourceObjects[i])}

\* C8: a colour value that has, after its '#', a character that is no hex
\* digit makes the load fail; no list is returned.
C8_NonHexFails ==
    (Terminal /\ \E i \in ColoredObjects :
        LET v == ColorValueOf(ResourceObjects[i]) IN
        /\ StartsWith(v, <<"#">>)
        /\ \E j \in 2..Len(v) : v[j] \notin HexChars)
    => (raised /= None /\ returned = None)

\* C9: after the '#', exactly 6 or 8 hex digits are accepted; any other
\* number of digits makes the load fail.
C9_DigitCount ==
    (Terminal /\ \E i \in ColoredObjects :
        LET v == ColorValueOf(ResourceObjects[i]) IN
        /\ StartsWith(v, <<"#">>)
        /\ \A j \in 2..Len(v) : v[j] \in HexChars
        /\ Len(v) - 1 \notin {6, 8})
    => (raised /= None /\ returned = None)

\* C10: every channel of every colour of a returned list lies in [0, 1].
C10_ChannelRange ==
    returned /= None =>
        \A k \in 1..Len(returned[1]) :
            returned[1][k].color /= None =>
                \A c \in {returned[1][k].color[1].r, returned[1][k].color[1].g,
                          returned[1][k].color[1].b, returned[1][k].color[1].a} :
                    0 <= c[1] /\ c[1] <= c[2]

\* the element an accumulated object was built from, and the element an
\* exception of the loop was raised at
Src(k) == ObjectElems[origin[k]]
RaisedInLoop == pc = "unwind" /\ resources /= None /\ obj_idx \in 1..Len(ObjectElems)

PresentParse(e, keys) ==
    \A key \in keys : Get(e, key) /= None => ParseInt(Get(e, key)[1], 10) /= None

\* the mesh has its vertices and triangles and every attribute that is
\* present is a number
GeometryParses(o) ==
    LET mesh == FindDesc(o, Plain("mesh"))[1] IN
    /\ FindChild(mesh, Plain("vertices")) /= None
    /\ FindChild(mesh, Plain("triangles")) /= None
    /\ \A i \in 1..Len(Iter(mesh)) :
        /\ Iter(mesh)[i].tag = Plain("vertex") => PresentParse(Iter(mesh)[i], {"x", "y", "z"})
        /\ Iter(mesh)[i].tag = Plain("triangle") => PresentParse(Iter(mesh)[i], {"v1", "v2", "v3"})

TransformElems(e) == FindAllDesc(e, Plain("transform"))
HasTransformValue(e) == TransformElems(e) /= <<>> /\ Get(TransformElems(e)[1], "value") /= None
TransformTokens(e) == Split(Get(TransformElems(e)[1], "value")[1])
AllNumbers(tokens) == \A i \in 1..Len(tokens) : IsNumber(tokens[i])
TokenValue(t) == ParseInt(t, 10)[1]

\* the first transform of the object, if any, holds numbers only
TransformParses(o) == HasTransformValue(o) => AllNumbers(TransformTokens(o))

LacksColorValue(e) == ColorElems(e) /= <<>> /\ Get(ColorElems(e)[1], "value") = None

\* C11: a colour element without a value attribute gives opaque white and
\* does not fail the load.
C11_MissingValueWhite ==
    /\ \A k \in 1..Len(objects) :
        LacksColorValue(Src(k)) =>
            /\ objects[k].color /= None
            /\ \A c \in {objects[k].color[1].r, objects[k].color[1].g,
                         objects[k].color[1].b, objects[k].color[1].a} : RatEq(c, <<1, 1>>)
    /\ (RaisedInLoop /\ LacksColorValue(ObjectElems[obj_idx])) =>
         ~(GeometryParses(ObjectElems[obj_idx]) /\ TransformParses(ObjectElems[obj_idx]))

C11_Witness ==
    /\ returned /= None
    /\ Len(returned[1]) = 1
    /\ LacksColorValue(ObjectElems[1])
    /\ returned[1][1].color = Some(Color3MF(<<255, 255>>, <<255, 255>>, <<255, 255>>, <<255, 255>>))

\* C12: a transform of exactly 16 numbers v[0..15] gives the matrix whose
\* cell (i, j) is v[i*4 + j].
C12_RowMajor ==
    \A k \in 1..Len(objects) :
        (HasTransformValue(Src(k)) /\ AllNumbers(TransformTokens(Src(k)))
            /\ Len(TransformTokens(Src(k))) = 16) =>
            /\ objects[k].transform /= None
            /\ \A i \in 0..3 : \A j \in 0..3 :
                 objects[k].transform[1][i][j] = TokenValue(TransformTokens(Src(k))[i * 4 + j + 1])

C12_Witness ==
    /\ returned /= None
    /\ Len(returned[1]) = 1
    /\ HasTransformValue(ObjectElems[1])
    /\ Get(TransformElems(ObjectElems[1])[1], "value")[1] = T16
    /\ returned[1][1].transform /= None
    /\ [j \in 0..3 |-> returned[1][1].transform[1][3][j]] = [j \in 0..3 |-> <<5, 6, 7, 1>>[j + 1]]
    /\ returned[1][1].transform[1][0][3] = 0

\* C13: a transform of numbers whose count is not 16 leaves the transform
\* absent, raises nothing, and the object is appended with its mesh, name and
\* colour.
C13_WrongCountDropped ==
    /\ \A k \in 1..Len(objects) :
        (HasTransformValue(Src(k)) /\ AllNumbers(TransformTokens(Src(k)))
            /\ Len(TransformTokens(Src(k))) /= 16) =>
            /\ objects[k].transform = None
            /\ objects[k].name = NameOf(Src(k), k - 1)
            /\ objects[k].color = DecodeColor(Src(k)).color
            /\ Len(objects[k].mesh.points) = Len(SourceVertices(Src(k)))
            /\ Len(objects[k].mesh.polys) = Len(SourceTriangles(Src(k)))
    /\ (RaisedInLoop /\ HasTransformValue(ObjectElems[obj_idx])
            /\ AllNumbers(TransformTokens(ObjectElems[obj_idx]))) =>
         ~(GeometryParses(ObjectElems[obj_idx]) /\ DecodeColor(ObjectElems[obj_idx]).raised = None)

C13_Witness ==
    /\ returned /= None
    /\ Len(returned[1]) = 1
    /\ HasTransformValue(ObjectElems[1])
    /\ Len(TransformTokens(ObjectElems[1])) = 12
    /\ returned[1][1].transform = None
    /\ returned[1][1].color /= None
    /\ returned[1][1].name = Widget
    /\ Len(returned[1][1].mesh.points) = 3

\* the object element builds without an exception
Builds(o) == GeometryParses(o) /\ DecodeColor(o).raised = None /\ TransformParses(o)

\* the payload the load reads
Payload(f) == ZipRead(f, f.entries[FirstModelEntry(f)].name)

\* the content of the file makes the load fail: not a zip, no model entry,
\* a payload that is not well-formed, or an object that does not build
FailsAtArchive(f) == ~f.zip \/ NoModelEntry(f)
FailsAtDocument(f) == ~FailsAtArchive(f) /\ Payload(f) = None
FailsAtObject(k) ==
    /\ resources /= None
    /\ k \in 1..Len(ObjectElems)
    /\ HasMesh(ObjectElems[k])
    /\ ~Builds(ObjectElems[k])

\* C14: a load that fails anywhere propagates the failure and returns no
\* list; objects assembled before the failure are never returned.
C14_AllOrNothing ==
    /\ raised /= None => returned = None
    /\ returned /= None => raised = None /\ pc = "done"
    /\ Terminal =>
        IF \/ FailsAtArchive(file_path)
           \/ FailsAtDocument(file_path)
           \/ (resources /= None /\ \E k \in 1..Len(ObjectElems) : FailsAtObject(k))
        THEN pc = "raised" /\ raised /= None /\ returned = None
        ELSE pc = "done" /\ returned = Some(objects)

C14_Witness ==
    /\ pc = "raised"
    /\ FailsAtObject(2)
    /\ Len(objects) = 1
    /\ returned = None
    /\ raised /= None

\* C15: the archive handle is closed in every terminal state of a load that
\* opened it, and is closed before an error reaches the caller.
C15_HandleClosed ==
    /\ Terminal => zf /= "open"
    /\ (Terminal /\ file_path.zip) => zf = "closed"
    /\ raised /= None => zf /= "open"
    /\ returned /= None => zf = "closed"

C15_Witness ==
    /\ pc = "raised"
    /\ zf = "closed"
    /\ raised[1].type \in {ValueError, ParseError, AttributeError}
    /\ FailsAtDocument(file_path) \/ FailsAtObject(obj_idx)

AttrOrZero(e, key) == IF Get(e, key) = None THEN 0 ELSE NumberAt(e, key)

Lenient(o) ==
    \/ \E i \in 1..Len(SourceVertices(o)) : \E key \in {"x", "y", "z"} :
            Get(SourceVertices(o)[i], key) = None
    \/ \E i \in 1..Len(SourceTriangles(o)) : \E key \in {"v1", "v2", "v3"} :
            Get(SourceTriangles(o)[i], key) = None
    \/ TransformElems(o) = <<>>

\* C16: a missing coordinate is 0, a missing index is 0, a missing transform
\* element leaves the transform absent; none of these aborts the load, the
\* object is appended and the other objects are returned.
C16_Leniencies ==
    /\ \A k \in 1..Len(objects) :
        /\ \A i \in 1..Len(SourceVertices(Src(k))) :
            objects[k].mesh.points[i] = <<AttrOrZero(SourceVertices(Src(k))[i], "x"),
                                          AttrOrZero(SourceVertices(Src(k))[i], "y"),
                                          AttrOrZero(SourceVertices(Src(k))[i], "z")>>
        /\ \A i \in 1..Len(SourceTriangles(Src(k))) :
            objects[k].mesh.polys[i] = <<AttrOrZero(SourceTriangles(Src(k))[i], "v1"),
                                         AttrOrZero(SourceTriangles(Src(k))[i], "v2"),
                                         AttrOrZero(SourceTriangles(Src(k))[i], "v3")>>
        /\ TransformElems(Src(k)) = <<>> => objects[k].transform = None
    /\ RaisedInLoop => ~Builds(ObjectElems[obj_idx])
    /\ (pc = "done" /\ resources /= None) =>
         /\ Len(returned[1]) = Cardinality({k \in 1..Len(ObjectElems) : HasMesh(ObjectElems[k])})
         /\ \A k \in 1..Len(ObjectElems) : HasMesh(ObjectElems[k]) => \E n \in 1..Len(origin) : origin[n] = k

C16_Witness ==
    /\ returned /= None
    /\ Len(returned[1]) = 2
    /\ Lenient(ObjectElems[1])
    /\ returned[1][1].mesh.points = <<<<0, -7, 0>>, <<0, 0, 0>>>>
    /\ returned[1][1].mesh.polys[1] = <<0, 9, 0>>
    /\ returned[1][1].transform = None
    /\ returned[1][2].name = Widget

OutOfRange(cell, n) == \E j \in 1..3 : cell[j] >= n \/ cell[j] < 0

\* C17: a triangle index that is negative or not below the vertex count is
\* stored as read and raises nothing; the object is returned.
C17_NoBoundsCheck ==
    /\ \A k \in 1..Len(objects) :
        /\ Len(objects[k].mesh.polys) = Len(SourceTriangles(Src(k)))
        /\ \A i \in 1..Len(SourceTriangles(Src(k))) : \A j \in 1..3 :
            LET key == <<"v1", "v2", "v3">>[j]
                t == SourceTriangles(Src(k))[i]
            IN  Get(t, key) /= None => objects[k].mesh.polys[i][j] = NumberAt(t, key)
    /\ (RaisedInLoop /\ DecodeColor(ObjectElems[obj_idx]).raised = None
            /\ TransformParses(ObjectElems[obj_idx])) =>
         ~GeometryParses(ObjectElems[obj_idx])

C17_Witness ==
    /\ returned /= None
    /\ \E k \in 1..Len(returned[1]) :
        LET m == returned[1][k].mesh IN
        /\ \E i \in 1..Len(m.polys) : \E j \in 1..3 : m.polys[i][j] >= Len(m.points)
        /\ \E i \in 1..Len(m.polys) : \E j \in 1..3 : m.polys[i][j] < 0
        /\ \A i \in 1..Len(m.polys) : OutOfRange(m.polys[i], Len(m.points))

Only(tag, found) == Elem(Plain("object"), {}, found)

\* C18: the colour comes from the first materials-namespace color element in
\* document order among all descendants of the object, the transform from the
\* first unnamespaced transform element among them; later ones are ignored.
C18_FirstDescendant ==
    \A k \in 1..Len(objects) :
        /\ objects[k].color =
             DecodeColor(Only("color", IF ColorElems(Src(k)) = <<>> THEN <<>>
                                       ELSE <<ColorElems(Src(k))[1]>>)).color
        /\ objects[k].transform =
             DecodeTransform(Only("transform", IF TransformElems(Src(k)) = <<>> THEN <<>>
                                               ELSE <<TransformElems(Src(k))[1]>>)).transform

C18_Witness ==
    /\ returned /= None
    /\ Len(returned[1]) = 1
    /\ Len(ColorElems(ObjectElems[1])) = 2
    /\ Len(TransformElems(ObjectElems[1])) = 2
    /\ FindAllChild(ObjectElems[1], Qualified(ns.m, "color")) = <<ColorElems(ObjectElems[1])[2]>>
    /\ FindAllChild(ObjectElems[1], Plain("transform")) = <<TransformElems(ObjectElems[1])[2]>>
    /\ ColorValueOf(ObjectElems[1]) = Red
    /\ RatEq(returned[1][1].color[1].r, <<1, 1>>)
    /\ RatEq(returned[1][1].color[1].g, <<0, 1>>)
    /\ returned[1][1].transform /= None
    /\ returned[1][1].transform[1][3][0] = 5

\* C19: in any sequence of calls, two calls on the same archive content give
\* the same result, whatever was called before or between them.
C19_NoStateBetweenCalls ==
    /\ \A i \in 1..Len(log) : \A j \in 1..Len(log) :
        log[i].file = log[j].file =>
            /\ log[i].returned = log[j].returned
            /\ log[i].raised = log[j].raised
    /\ \A i \in 1..Len(log) : (log[i].returned = None) /= (log[i].raised = None)

C19_Witness ==
    /\ Len(log) = 3
    /\ log[1].file = log[3].file
    /\ log[2].file /= log[1].file
    /\ log[1].returned /= None
    /\ Len(log[1].returned[1]) = 2
    /\ log[3].returned = log[1].returned
    /\ log[2].raised /= None
    /\ log[2].raised[1].type = ValueError

LoadFailed == load_raised /= None \/ success = Some(FALSE)

\* C20: a load started by the file handler that raises, or returns a false
\* value, ends in a status-bar message; no exception leaves the handler.
C20_FailureShown ==
    /\ escaped = None
    /\ gui_pc /= "escaped"
    /\ (gui_pc = "returned" /\ LoadFailed) =>
         /\ shown /= <<>>
         /\ shown[Len(shown)] \in {"VTK Error: ", "Failed to load model: "}
    /\ (gui_pc = "returned" /\ raised /= None) =>
         /\ load_raised = raised
         /\ shown = <<"VTK Error: ">>
    /\ (gui_pc = "returned" /\ emitted /= <<>> /\ ~emitted[Len(emitted)]) => LoadFailed

C20_Witness ==
    /\ gui_pc = "returned"
    /\ raised /= None
    /\ raised[1].type = BadZipFile
    /\ load_raised = raised
    /\ shown = <<"VTK Error: ">>

\* the resources elements of the document, in document order
ResourcesElems == FindAllDesc(root[1], Plain("resources"))

\* the mesh-bearing object elements under an element, in document order
MeshObjectsUnder(e) ==
    LET Bearing(o) == LocalDesc(o, "mesh") /= <<>>
    IN  SelectSeq(FindAllDesc(e, Plain("object")), Bearing)

\* C21: every returned object comes from an object element under the first
\* resources element of the document; object elements elsewhere give nothing.
C21_FirstResourcesOnly ==
    (pc = "done" /\ root /= None /\ ResourcesElems /= <<>>) =>
        LET under == MeshObjectsUnder(ResourcesElems[1]) IN
        /\ Len(returned[1]) = Len(under)
        /\ \A k \in 1..Len(under) :
             returned[1][k] = BuildObject(under[k], k - 1).object[1]

C21_Witness ==
    /\ pc = "done"
    /\ root /= None
    /\ Len(ResourcesElems) = 2
    /\ Len(MeshObjectsUnder(ResourcesElems[1])) = 1
    /\ Len(MeshObjectsUnder(ResourcesElems[2])) = 1
    /\ MeshObjectsUnder(ResourcesElems[1]) /= MeshObjectsUnder(ResourcesElems[2])
    /\ Get(MeshObjectsUnder(ResourcesElems[2])[1], "name") = Some(Widget)
    /\ Len(returned[1]) = 1
    /\ returned[1][1].name = ObjectNumber(0)

\* C25: a document without an element of the unqualified tag resources, be
\* it absent or declared in a namespace, loads as the empty list, no error.
C25_NoUnqualifiedResources ==
    (Terminal /\ root /= None /\ ResourcesElems = <<>>) =>
        /\ pc = "done"
        /\ returned = Some(<<>>)
        /\ raised = None

C25_Witness ==
    /\ pc = "done"
    /\ root /= None
    /\ ResourcesElems = <<>>
    /\ LocalDesc(root[1], "resources") /= <<>>
    /\ LocalDesc(LocalDesc(root[1], "resources")[1], "mesh") /= <<>>
    /\ returned = Some(<<>>)

MeshOf(o) == FindAllDesc(o, Plain("mesh"))[1]
LacksPart(o) ==
    \/ FindAllChild(MeshOf(o), Plain("vertices")) = <<>>
    \/ FindAllChild(MeshOf(o), Plain("triangles")) = <<>>

\* C26: a mesh without a direct vertices child or without a direct triangles
\* child fails the whole load; an empty vertices or triangles element gives
\* zero points or zero triangles and no error.
C26_MissingPartFails ==
    /\ \A k \in 1..Len(objects) :
        /\ ~LacksPart(Src(k))
        /\ Len(objects[k].mesh.points) =
             Len(FindAllChild(FindAllChild(MeshOf(Src(k)), Plain("vertices"))[1], Plain("vertex")))
        /\ Len(objects[k].mesh.polys) =
             Len(FindAllChild(FindAllChild(MeshOf(Src(k)), Plain("triangles"))[1], Plain("triangle")))
    /\ (Terminal /\ resources /= None
            /\ \E k \in 1..Len(ObjectElems) : HasMesh(ObjectElems[k]) /\ LacksPart(ObjectElems[k])) =>
         /\ pc = "raised"
         /\ raised /= None
         /\ returned = None
    /\ (RaisedInLoop /\ ~LacksPart(ObjectElems[obj_idx])
            /\ SourceVertices(ObjectElems[obj_idx]) = <<>>
            /\ SourceTriangles(ObjectElems[obj_idx]) = <<>>) =>
         ~(DecodeColor(ObjectElems[obj_idx]).raised = None /\ TransformParses(ObjectElems[obj_idx]))

C26_Witness ==
    /\ pc = "raised"
    /\ obj_idx = 2
    /\ Len(objects) = 1
    /\ LacksPart(ObjectElems[2])
    /\ LocalDesc(ObjectElems[2], "vertices") /= <<>>
    /\ LocalDesc(ObjectElems[2], "triangles") /= <<>>
    /\ raised[1].type = AttributeError
    /\ returned = None

EmptyPartsLoaded ==
    /\ pc = "done"
    /\ Len(returned[1]) = 2
    /\ returned[1][2].mesh = [points |-> <<>>, polys |-> <<>>]

\* C27: a colour value that is present and does not start with # leaves the
\* colour absent; nothing is parsed, nothing raised, the object is appended.
C27_NoHashNoColor ==
    /\ \A k \in 1..Len(objects) :
        (HasColorValue(Src(k)) /\ ~StartsWith(ColorValueOf(Src(k)), <<"#">>)) =>
            objects[k].color = None
    /\ (RaisedInLoop /\ HasColorValue(ObjectElems[obj_idx])
            /\ ~StartsWith(ColorValueOf(ObjectElems[obj_idx]), <<"#">>)) =>
         ~(GeometryParses(ObjectElems[obj_idx]) /\ TransformParses(ObjectElems[obj_idx]))

C27_Witness ==
    /\ pc = "done"
    /\ Len(returned[1]) = 1
    /\ HasColorValue(ObjectElems[1])
    /\ ColorValueOf(ObjectElems[1]) = <<"r", "e", "d">>
    /\ returned[1][1].color = None
    /\ Len(returned[1][1].mesh.points) = 3

HasBadToken(o) == HasTransformValue(o) /\ ~AllNumbers(TransformTokens(o))

\* C28: a transform value with a token that is not a number fails the whole
\* load, whatever the number of tokens; a wrong count of numbers is dropped.
C28_BadTokenFails ==
    /\ \A k \in 1..Len(objects) :
        /\ ~HasBadToken(Src(k))
        /\ (HasTransformValue(Src(k)) /\ Len(TransformTokens(Src(k))) /= 16) =>
             objects[k].transform = None
    /\ (Terminal /\ resources /= None
            /\ \E k \in 1..Len(ObjectElems) : HasMesh(ObjectElems[k]) /\ HasBadToken(ObjectElems[k])) =>
         /\ pc = "raised"
         /\ raised /= None
         /\ returned = None
    /\ (pc = "raised" /\ resources /= None /\ obj_idx \in 1..Len(ObjectElems)
            /\ HasBadToken(ObjectElems[obj_idx])
            /\ GeometryParses(ObjectElems[obj_idx])
            /\ DecodeColor(ObjectElems[obj_idx]).raised = None) =>
         raised[1].type = ValueError

C28_Witness ==
    /\ pc = "raised"
    /\ obj_idx = 1
    /\ HasBadToken(ObjectElems[1])
    /\ Len(TransformTokens(ObjectElems[1])) = 16
    /\ raised[1].type = ValueError
    /\ returned = None

\* C22: when clear_scene has returned the actors dict is empty and the
\* renderer holds no actor that a load added, after any sequence of loads.
C22_ClearSceneEmpties ==
    viewer.cleared =>
        /\ DOMAIN viewer.actors = {}
        /\ viewer.in_renderer = {}

\* C23: the axes are initialized only with a widget, no widget is made while
\* one is initialized, and _cleanup_axes leaves widget, actor and flag reset.
C23_AxesConsistent ==
    /\ viewer.axes_initialized => viewer.axes_widget /= None
    /\ ~viewer.overlap
    /\ viewer.cleaned =>
        /\ viewer.axes_widget = None
        /\ viewer.axes_actor = None
        /\ ~viewer.axes_initialized
    /\ viewer.axes_widget /= None => viewer.axes_actor /= None

C23_Witness ==
    /\ gui_pc = "ready"
    /\ ops = MaxOps
    /\ emitted = <<TRUE>>
    /\ viewer.axes_initialized
    /\ viewer.axes_widget = Some([enabled |-> FALSE])
    /\ ~viewer.show_axes
    /\ ~viewer.cleaned

InRange(x) == ~x.nan /\ 50 <= x.v /\ x.v <= 300

\* C24: the stored intensity is the argument clamped to [0.5, 3.0], every
\* light with a base intensity has base * stored, also when the lights are
\* made anew by _setup_lighting.
C24_IntensityClamped ==
    /\ InRange(viewer.current_intensity)
    /\ \A name \in DOMAIN viewer.lights :
        name \in DOMAIN base_intensities =>
            viewer.lights[name].intensity =
                Float(base_intensities[name] * viewer.current_intensity.v)
    /\ (viewer.intensity_arg /= None /\ ~viewer.intensity_arg[1].nan) =>
        LET x == viewer.intensity_arg[1].v IN
        viewer.current_intensity.v = IF x < 50 THEN 50 ELSE IF x > 300 THEN 300 ELSE x

C24_Witness ==
    /\ gui_pc = "read"
    /\ viewer.intensity_arg = Some(Float(350))
    /\ viewer.current_intensity = Float(300)
    /\ viewer.lights["key"].intensity = Float(1800)
    /\ viewer.lights["ambient"].intensity = Float(900)

\* C29: a call of load_stl or load_3mf emits model_loaded exactly once: True
\* before it returns True, False before its exception reaches the caller,
\* the failure of the file-existence test included.
C29_EmitsOnce ==
    /\ gui_pc = "loaded" => emitted = <<TRUE>>
    /\ gui_pc = "propagate" => emitted = <<FALSE>>

\* C30: a light that toggle_light switched off stays off until toggle_light
\* switches it on, whatever set_light_intensity, reset_view and loads come
\* in between.
C30_OffStaysOff ==
    \A name \in viewer.wanted_off : viewer.lights[name].switch = 0

====
